---- MODULE Spec2Model ----
(***************************************************************************)
(* A model of the wellbeing planner (src/app): the session handler          *)
(* Orchestrator.run with the storage it reads and writes (logging_db), the  *)
(* plan assembly and guardrail (orchestration.py, validators.py,            *)
(* retrieval.py) and the life-quality engine (life_quality.py).             *)
(*                                                                         *)
(* Representation.                                                         *)
(*  - A Python str is a "text": a sequence of atoms (short strings). The    *)
(*    texts of the model are cut into atoms so that every keyword the code  *)
(*    looks for is a run of whole atoms; `kw in s` is then "kw is a         *)
(*    contiguous run of atoms of s", and str.lower() maps atom by atom.     *)
(*    Identifiers (user ids, content ids, tags, theme names) are strings.   *)
(*  - Python None is the reserved text None; "" is the empty text <<>>.     *)
(*  - Floats are exact fixed-point integers. Sentiment-like quantities      *)
(*    (range [-1,1]) and life-quality points are both counted in units of   *)
(*    1/Scale; Scale is chosen so that the 0.7/0.3 rolling average stays    *)
(*    exact for as many sessions as the model runs. Rounding error of       *)
(*    IEEE doubles is not modelled.                                         *)
(*  - models.py under src/ does not declare ContentItem.source_title,       *)
(*    ContentItem.source_url and PlanItem.evidence_url, which retrieval.py, *)
(*    orchestration.py and tests/test_flow.py read and write; they are      *)
(*    modelled as the optional fields those uses (and spec section 3)       *)
(*    describe.                                                             *)
(*  - Orchestrator.__init__ (schema creation, retention cleanup of rows     *)
(*    older than WB_RETENTION_DAYS, default 30 days) runs once before the   *)
(*    modelled horizon, which is shorter than the retention period.         *)
(***************************************************************************)
EXTENDS Integers, Sequences, FiniteSets, TLC

\* ------------------------------------------------------------------ bounds
\* Sessions run in one behaviour (over all users).
MaxSessions == 3
\* Last tick of the clock; a session takes one tick.
MaxClock == 4
\* Clock ticks per calendar day.
TicksPerDay == 2
\* Similarity contributed by one shared term, in thousandths.
SimStep == 60
\* Last tick of the clock where one user's sessions are spread over days.
StreakClock == 9
\* Most items of a plan handed to validate_plan on its own.
\* Sessions of the one user of a life-quality history (more than HistoryLimit).
MaxHistorySessions == 8
\* The longest plan handed to _enrich_plan_with_citations on its own.
MaxBackfillItems == 2
\* The longest generator text, in tokens, handed to generate_json on its own.
MaxJsonTokens == 4
\* Steps per unit of the outputs of the external sentiment models.
SentimentGrid == 4
\* Calls of search on one repository.
MaxSearches == 3
\* Steps per unit of the sentiment inputs of compute_lqi_score on its own.
ScoreGrid == 4
\* The longest conversation handed to infer_action_adherence on its own.
MaxAdherenceMessages == 3
\* The longest plan handed to validate_plan on its own.
MaxValidateItems == 2
\* cap_life_quality_delta on its own: candidates from CapMargin points
\* below 0 to CapMargin points above 100, CapGrid values per point.
CapMargin == 20
CapGrid == 2


\* ------------------------------------------------------- program constants
BaseScore == 65
SentimentSwing == 20
CalibratedSwing == 25
StressPenalty == 10
SleepPenalty == 5
AdherenceSwing == 40
CapLimit == 15
MaxItemMinutes == 240
MaxPlanItems == 2
TopK == 5
ExplainK == 3
DefaultMinutes == 15
QuickMinutes == 5
HistoryLimit == 7
TrendBand == 2
Backfills == 3
MaxAvailable == 480

\* ------------------------------------------------------------- arithmetic
RECURSIVE Pow10(_)
Pow10(n) == IF n = 0 THEN 1 ELSE 10 * Pow10(n - 1)

\* One point (and the sentiment value 1.0) in model units.
Scale == 1000 * Pow10(MaxSessions)
\* A decimal given in thousandths, in model units.
Milli(m) == m * (Scale \div 1000)

Max2(a, b) == IF a >= b THEN a ELSE b
Min2(a, b) == IF a <= b THEN a ELSE b
Abs(a) == IF a >= 0 THEN a ELSE -a
Clamp(lo, hi, x) == Max2(lo, Min2(hi, x))

\* ------------------------------------------------------------------ texts
\* A sequence given as a function over 1..n, as a tuple.
Tup(f) == f \o <<>>

None == <<"#None">>
Truthy(s) == s # None /\ s # <<>>

LowerAtom(a) ==
  CASE a = "Ice" -> "ice"
    [] a = "Bath" -> "bath"
    [] a = "Fasting" -> "fasting"
    [] a = "Supplement" -> "supplement"
    [] a = "Breathing" -> "breathing"
    [] a = "Reset" -> "reset"
    [] a = "Stretch" -> "stretch"
    [] a = "Walk" -> "walk"
    [] a = "Did" -> "did"
    [] a = "Done" -> "done"
    [] a = "Tired" -> "tired"
    [] a = "Sleep" -> "sleep"
    [] a = "Breath" -> "breath"
    [] a = "5-Minute" -> "5-minute"
    [] OTHER -> a

Lower(s) == Tup([i \in 1..Len(s) |-> LowerAtom(s[i])])

\* Python `kw in s` for str operands.
Contains(s, kw) ==
  \E i \in 0..(Len(s) - Len(kw)) :
    \A j \in 1..Len(kw) : s[i + j] = kw[j]

RECURSIVE JoinTexts(_, _)
JoinTexts(sep, ts) ==
  IF Len(ts) = 0 THEN <<>>
  ELSE IF Len(ts) = 1 THEN ts[1]
  ELSE ts[1] \o sep \o JoinTexts(sep, Tail(ts))

RECURSIVE SumSeq(_)
SumSeq(s) == IF Len(s) = 0 THEN 0 ELSE s[1] + SumSeq(Tail(s))

Take(s, n) == SubSeq(s, 1, Min2(n, Len(s)))

\* ------------------------------------------------------------- validators
UnsafeKeywords == << <<"fasting">>, <<"ice", " ", "bath">>, <<"supplement">> >>

\* Variant of the denylist test that compares the title as written.
UnsafeTitleCaseSensitive(title) ==
  \E k \in 1..Len(UnsafeKeywords) : Contains(title, UnsafeKeywords[k])

UnsafeTitle(title) ==
  \E k \in 1..Len(UnsafeKeywords) : Contains(Lower(title), UnsafeKeywords[k])

BadDuration(it) == it.duration_minutes <= 0 \/ it.duration_minutes > MaxItemMinutes

\* validate_plan: <<ok, reason>>.
validate_plan(plan) ==
  LET items == plan.items
      total == SumSeq(Tup([i \in 1..Len(items) |-> items[i].duration_minutes]))
      bad(i) == BadDuration(items[i]) \/ ~Truthy(items[i].evidence_citation)
  IN IF total <= 0 THEN <<FALSE, <<"Plan has no time allocated.">> >>
     ELSE IF \E i \in 1..Len(items) : bad(i)
       THEN LET i == CHOOSE i \in 1..Len(items) :
                       bad(i) /\ \A j \in 1..(i - 1) : ~bad(j)
            IN IF BadDuration(items[i])
                 THEN <<FALSE, <<"Invalid duration for item ">> \o items[i].title \o <<".">> >>
                 ELSE <<FALSE, <<"Missing evidence citation for ", items[i].content_id, ".">> >>
     ELSE IF \E i \in 1..Len(items) : UnsafeTitle(items[i].title)
       THEN <<FALSE, <<"Potentially unsafe recommendation detected.">> >>
     ELSE <<TRUE, <<>> >>

\* An Optional[float]: <<>> is None, <<x>> the float x.
NoScore == <<>>
Some(x) == <<x>>

\* Variant of cap_life_quality_delta that limits a rise only.
cap_rise_only(previous, candidate) ==
  IF previous = NoScore THEN Clamp(0, 100 * Scale, candidate)
  ELSE Clamp(0, 100 * Scale, Min2(candidate, previous[1] + CapLimit * Scale))

\* cap_life_quality_delta(previous, candidate, limit = 15.0), scores in
\* model units.
cap_life_quality_delta(previous, candidate) ==
  IF previous = NoScore THEN Clamp(0, 100 * Scale, candidate)
  ELSE LET limit == CapLimit * Scale
           delta == candidate - previous[1]
           c == IF delta > limit THEN previous[1] + limit
                ELSE IF delta < -limit THEN previous[1] - limit
                ELSE candidate
       IN Clamp(0, 100 * Scale, c)

\* -------------------------------------------------------------- retrieval
DurationLadder == <<5, 10, 15, 20, 25, 30>>

\* pick_durations: the loop over the ladder, stopping once two are chosen.
RECURSIVE PickLoop(_, _, _)
PickLoop(k, chosen, m) ==
  IF k > Len(DurationLadder) THEN chosen
  ELSE LET c == IF DurationLadder[k] <= Max2(QuickMinutes, m)
                  THEN Append(chosen, DurationLadder[k]) ELSE chosen
       IN IF Len(c) >= MaxPlanItems THEN c ELSE PickLoop(k + 1, c, m)

\* As pick_durations, comparing each slot with available_minutes itself.
RECURSIVE PickLoopNoFloor(_, _, _)
PickLoopNoFloor(k, chosen, m) ==
  IF k > Len(DurationLadder) THEN chosen
  ELSE LET c == IF DurationLadder[k] <= m
                  THEN Append(chosen, DurationLadder[k]) ELSE chosen
       IN IF Len(c) >= MaxPlanItems THEN c ELSE PickLoopNoFloor(k + 1, c, m)

pick_durations_no_floor(m) ==
  LET chosen == PickLoopNoFloor(1, <<>>, m)
  IN Take(IF Len(chosen) = 0 THEN <<Min2(QuickMinutes, m)>> ELSE chosen, MaxPlanItems)

pick_durations(m) ==
  LET chosen == PickLoop(1, <<>>, m)
  IN Take(IF Len(chosen) = 0 THEN <<Min2(QuickMinutes, m)>> ELSE chosen, MaxPlanItems)

\* ------------------------------------------------------------- reflection
\* Atoms that are not word characters for the regex \b.
NonWordAtoms == {" ", "\n", ".", ",", "!", "?", "'", "-", ":"}
\* Atoms that _tokenize's [a-zA-Z']+ does not match.
NonTokenAtoms == NonWordAtoms \ {"'"}

\* re.search(rf"\b{kw}\b", s): kw occurs with a word boundary on each side.
\* Every keyword begins and ends with a word atom.
ContainsWord(s, kw) ==
  \E i \in 0..(Len(s) - Len(kw)) :
    /\ \A j \in 1..Len(kw) : s[i + j] = kw[j]
    /\ i > 0 => s[i] \in NonWordAtoms
    /\ i + Len(kw) < Len(s) => s[i + Len(kw) + 1] \in NonWordAtoms

ThemeNames ==
  <<"body image", "burnout", "energy", "focus", "gratitude", "loneliness",
    "mobility", "mood", "sleep", "stress">>

THEME_KEYWORDS(theme) ==
  CASE theme = "stress" ->
         {<<"stress">>, <<"overwhelm">>, <<"anxious">>, <<"anxiety">>, <<"pressure">>,
          <<"tense">>, <<"deadline">>}
    [] theme = "sleep" ->
         {<<"sleep">>, <<"insomnia">>, <<"tired">>, <<"restless">>, <<"bedtime">>,
          <<"woke">>, <<"nap">>, <<"drowsy">>}
    [] theme = "mobility" ->
         {<<"back">>, <<"posture">>, <<"stiff">>, <<"ache">>, <<"stretch">>, <<"tight">>,
          <<"shoulder">>, <<"neck">>}
    [] theme = "focus" ->
         {<<"distract">>, <<"focus">>, <<"concentrate">>, <<"procrastinate">>,
          <<"deep", " ", "work">>, <<"productive">>, <<"keep", " ", "up">>}
    [] theme = "gratitude" ->
         {<<"grateful">>, <<"gratitude">>, <<"thankful">>, <<"appreciate">>, <<"blessings">>}
    [] theme = "energy" ->
         {<<"exhausted">>, <<"fatigued">>, <<"energized">>, <<"sluggish">>, <<"wired">>,
          <<"alert">>, <<"vibrant">>}
    [] theme = "mood" ->
         {<<"sad">>, <<"down">>, <<"blue">>, <<"happy">>, <<"joy">>, <<"calm">>,
          <<"irritable">>, <<"frustrated">>}
    [] theme = "loneliness" ->
         {<<"lonely">>, <<"isolated">>, <<"alone">>, <<"no", " ", "one">>, <<"disconnected">>}
    [] theme = "body image" ->
         {<<"body">>, <<"appearance">>, <<"weight">>, <<"image">>, <<"mirror">>,
          <<"self", "-", "conscious">>}
    [] theme = "burnout" ->
         {<<"burnout">>, <<"burn", " ", "out">>, <<"burned", " ", "out">>,
          <<"burnt", " ", "out">>, <<"drained">>, <<"fried">>, <<"overloaded">>}
    [] OTHER -> {}

\* sorted() over the names the model uses: every theme name, and the
\* focus areas of the contexts that are not theme names.
NameOrder ==
  <<"body image", "burnout", "energy", "focus", "gratitude", "loneliness",
    "mobility", "mood", "relaxation", "sleep", "stress">>

RECURSIVE SortedFrom(_, _)
SortedFrom(k, found) ==
  IF k > Len(NameOrder) THEN <<>>
  ELSE (IF NameOrder[k] \in found THEN <<NameOrder[k]>> ELSE <<>>)
       \o SortedFrom(k + 1, found)

SeqToSet(s) == {s[i] : i \in 1..Len(s)}

\* Variant of _themes that does not add the focus area.
ThemesNoFocus(text, context) ==
  LET tl == Lower(text)
      hit == {ThemeNames[k] : k \in {k \in 1..Len(ThemeNames) :
                \E kw \in THEME_KEYWORDS(ThemeNames[k]) : ContainsWord(tl, kw)}}
      prefs == {LowerAtom(p) : p \in context.preferences} \cap SeqToSet(ThemeNames)
      found == hit \cup prefs
  IN SortedFrom(1, IF found = {} THEN {"stress"} ELSE found)

\* _themes(text, context): the sorted list of themes.
Themes(text, context) ==
  LET tl == Lower(text)
      hit == {ThemeNames[k] : k \in {k \in 1..Len(ThemeNames) :
                \E kw \in THEME_KEYWORDS(ThemeNames[k]) : ContainsWord(tl, kw)}}
      focus == IF context.focus_area # "" THEN {LowerAtom(context.focus_area)} ELSE {}
      prefs == {LowerAtom(p) : p \in context.preferences} \cap SeqToSet(ThemeNames)
      found == hit \cup focus \cup prefs
  IN SortedFrom(1, IF found = {} THEN {"stress"} ELSE found)

LowEnergyWords ==
  {<<"exhausted">>, <<"tired">>, <<"drained">>, <<"burned", " ", "out">>,
   <<"burnt", " ", "out">>, <<"wiped">>, <<"burnout">>}
HighEnergyWords ==
  {<<"wired">>, <<"alert">>, <<"motivated">>, <<"ready">>, <<"pumped">>, <<"energized">>}

energy_from_text(text) ==
  LET tl == Lower(text)
  IN IF \E k \in LowEnergyWords : Contains(tl, k) THEN "low"
     ELSE IF \E k \in HighEnergyWords : Contains(tl, k) THEN "high"
     ELSE "medium"

PosWords == {<<"good">>, <<"great">>, <<"calm">>, <<"happy">>, <<"okay">>, <<"content">>}
\* "stressed" and "overwhelmed" are cut where the theme keywords "stress"
\* and "overwhelm" end.
NegWords ==
  {<<"bad">>, <<"tired">>, <<"stress", "ed">>, <<"sad">>, <<"anxious">>,
   <<"overwhelm", "ed">>}

\* SentimentService.score, heuristic backend: <<raw, confidence, calibrated>>.
HeuristicScore(text) ==
  LET tl == Lower(text)
      pos == Cardinality({w \in PosWords : Contains(tl, w)})
      neg == Cardinality({w \in NegWords : Contains(tl, w)})
      score == Clamp(-Scale, Scale, Milli(400) * pos - Milli(400) * neg)
  IN <<score, Milli(350), (score * 8) \div 10>>

\* SentimentService._load_distilbert._score, from the softmax probability of
\* the positive class: <<sentiment, confidence, calibrated>>.
DistilbertScore(positive) ==
  LET negative == Scale - positive
  IN <<positive - negative, Max2(positive, negative),
       Clamp(-Scale, Scale, ((positive - Milli(550)) * 100) \div 45)>>

\* SentimentService.score, vader backend, from VADER's compound score.
VaderScore(compound) ==
  <<compound, Max2(Milli(200), Scale - (Abs(compound) * 25) \div 100),
    Clamp(-Scale, Scale, (compound * 9) \div 10)>>

\* SentimentService.score(text) under the backend chosen at import; `ext`
\* is what the backend's external model returns for the text.
SentimentScore(backend, ext, text) ==
  CASE backend = "distilbert" -> DistilbertScore(ext)
    [] backend = "vader" -> VaderScore(ext)
    [] OTHER -> HeuristicScore(text)

\* Variant of _reflection_score without the final clamp.
reflection_score_unclamped(calibrated, themes, energy) ==
  LET theme_bonus == Min2(Milli(200), Milli(50) * Len(themes))
      energy_adjust == CASE energy = "low" -> -Milli(100)
                         [] energy = "high" -> Milli(80)
                         [] OTHER -> 0
  IN Milli(500) + (4 * calibrated) \div 10 + theme_bonus + energy_adjust

\* _reflection_score(calibrated, themes, energy).
reflection_score(calibrated, themes, energy) ==
  LET theme_bonus == Min2(Milli(200), Milli(50) * Len(themes))
      energy_adjust == CASE energy = "low" -> -Milli(100)
                         [] energy = "high" -> Milli(80)
                         [] OTHER -> 0
      raw == Milli(500) + (4 * calibrated) \div 10 + theme_bonus + energy_adjust
  IN Clamp(0, Scale, raw)

\* analyze(conversation, context) under a backend: the ReflectionSignals.
AnalyzeBackend(backend, ext, conversation, context) ==
  LET full_text == JoinTexts(<<"\n">>, conversation)
      merged == IF context.mood = None THEN full_text
                ELSE full_text \o <<" ">> \o context.mood
      Signals(sc, themes, energy) ==
        [sentiment |-> sc[1],
         sentiment_confidence |-> sc[2],
         sentiment_calibrated |-> sc[3],
         sentiment_model |-> backend,
         reflection_score |-> reflection_score(sc[3], themes, energy),
         top_themes |-> themes,
         energy_level |-> energy]
  IN Signals(SentimentScore(backend, ext, merged), Themes(full_text, context),
             energy_from_text(merged))

\* analyze(conversation, context) where neither transformers nor
\* vaderSentiment is installed: the heuristic backend.
analyze(conversation, context) == AnalyzeBackend("heuristic", 0, conversation, context)

\* ----------------------------------------------------------- life quality
PositiveKeywords ==
  {<<"completed">>, <<"did">>, <<"finished">>, <<"done">>, <<"stuck", " ", "with">>,
   <<"followed">>}
NegativeKeywords ==
  {<<"skipped">>, <<"could", "n", "'", "t">>, <<"did", "n", "'", "t">>, <<"avoid">>,
   <<"failed">>}

\* infer_action_adherence(conversation), in model units.
infer_action_adherence(conversation) ==
  LET text == JoinTexts(<<" ">>, Tup([i \in 1..Len(conversation) |-> Lower(conversation[i])]))
      positive == \E k \in PositiveKeywords : Contains(text, k)
      negative == \E k \in NegativeKeywords : Contains(text, k)
  IN IF text = <<>> THEN Milli(600)
     ELSE IF positive /\ ~negative THEN Milli(850)
     ELSE IF negative /\ ~positive THEN Milli(350)
     ELSE IF positive /\ negative THEN Milli(550)
     ELSE Milli(600)

\* Variant of compute_lqi_score that does not clamp sentiment_delta.
compute_lqi_score_raw_delta(signals, sentiment_delta, adherence) ==
  LET sentiment_component == sentiment_delta * SentimentSwing
      calibrated == Clamp(-Scale, Scale, signals.sentiment_calibrated) * CalibratedSwing
      theme_penalty ==
        (IF "stress" \in SeqToSet(signals.top_themes) THEN -StressPenalty ELSE 0)
        + (IF "sleep" \in SeqToSet(signals.top_themes) THEN -SleepPenalty ELSE 0)
      adherence_component == (adherence - Milli(500)) * AdherenceSwing
      score == BaseScore * Scale + sentiment_component + calibrated
               + theme_penalty * Scale + adherence_component
  IN Clamp(0, 100 * Scale, score)

\* compute_lqi_score(signals, sentiment_delta, adherence), in model units.
compute_lqi_score(signals, sentiment_delta, adherence) ==
  LET sentiment_component == Clamp(-Scale, Scale, sentiment_delta) * SentimentSwing
      calibrated == Clamp(-Scale, Scale, signals.sentiment_calibrated) * CalibratedSwing
      theme_penalty ==
        (IF "stress" \in SeqToSet(signals.top_themes) THEN -StressPenalty ELSE 0)
        + (IF "sleep" \in SeqToSet(signals.top_themes) THEN -SleepPenalty ELSE 0)
      adherence_component == (adherence - Milli(500)) * AdherenceSwing
      score == BaseScore * Scale + sentiment_component + calibrated
               + theme_penalty * Scale + adherence_component
  IN Clamp(0, 100 * Scale, score)

\* ---------------------------------------------------------- content index
\* _tokenize(text): the maximal runs of [a-zA-Z'] of the lowercased text.
Tokenize(text) ==
  LET tl == Lower(text)
      tok(i) == tl[i] \notin NonTokenAtoms
  IN {SubSeq(tl, i, j) : <<i, j>> \in
        {p \in (1..Len(tl)) \X (1..Len(tl)) :
           /\ p[1] <= p[2]
           /\ \A k \in p[1]..p[2] : tok(k)
           /\ p[1] > 1 => ~tok(p[1] - 1)
           /\ p[2] < Len(tl) => ~tok(p[2] + 1)}}

\* ContentRepository._compose_doc(item).
compose_doc(item) == JoinTexts(<<" ", "\n">>, <<item.title, item.summary, item.body>>)

\* The dot product of the document's and the query's unit vectors, in
\* thousandths. The TF-IDF weights are abstracted: every term the two
\* texts share adds SimStep, up to 1.0.
Similarity(item, query_text) ==
  Min2(1000, SimStep * Cardinality(Tokenize(compose_doc(item)) \cap Tokenize(query_text)))

\* LocalVectorStore.query, before the sort: the boosted score of every
\* document, in corpus order.
Scored(items, query_text, theme_boost) ==
  Tup([i \in 1..Len(items) |->
     LET tags == {LowerAtom(t) : t \in SeqToSet(items[i].tags)}
         boost == 120 * Cardinality(theme_boost \cap tags)
     IN [score |-> Similarity(items[i], query_text) + boost, content |-> items[i]]])

\* Variant of the sort that puts the later of two equal scores first.
RECURSIVE SortDescLastFirst(_)
SortDescLastFirst(scored) ==
  IF Len(scored) = 0 THEN <<>>
  ELSE LET i == CHOOSE i \in 1..Len(scored) :
                  /\ \A j \in 1..Len(scored) : scored[j].score <= scored[i].score
                  /\ \A j \in (i + 1)..Len(scored) : scored[j].score < scored[i].score
       IN <<scored[i]>>
          \o SortDescLastFirst(SubSeq(scored, 1, i - 1)
                               \o SubSeq(scored, i + 1, Len(scored)))

\* list.sort(key = score, reverse = True): stable, descending.
RECURSIVE SortDesc(_)
SortDesc(scored) ==
  IF Len(scored) = 0 THEN <<>>
  ELSE LET i == CHOOSE i \in 1..Len(scored) :
                  /\ \A j \in 1..Len(scored) : scored[j].score <= scored[i].score
                  /\ \A j \in 1..(i - 1) : scored[j].score < scored[i].score
       IN <<scored[i]>>
          \o SortDesc(SubSeq(scored, 1, i - 1) \o SubSeq(scored, i + 1, Len(scored)))

\* ContentRepository.search(query_text, themes, topk): the ranked copies
\* of the items, each with its boosted score.
search(items, query_text, themes, topk) ==
  IF Len(items) = 0 THEN <<>>
  ELSE LET normalized_themes == {LowerAtom(t) : t \in SeqToSet(themes)}
           Results(hits) ==
             Tup([i \in 1..Len(hits) |-> [hits[i].content EXCEPT !.score = hits[i].score]])
       IN Results(Take(SortDesc(Scored(items, query_text, normalized_themes)), topk))

\* Variant of _citation_text without the "<id>:<tag>" form for an item
\* that has no source.
citation_text_source_only(item) ==
  IF Truthy(item.source_title) /\ Truthy(item.source_url) THEN item.source_title ELSE <<>>

\* ContentRepository._citation_text(item).
citation_text(item) ==
  IF Truthy(item.source_title) /\ Truthy(item.source_url) THEN item.source_title
  ELSE <<item.id, ":", IF Len(item.tags) > 0 THEN item.tags[1] ELSE "general">>

\* ContentRepository.citation_for(item): <<citation, url>>.
citation_for(item) == <<citation_text(item), item.source_url>>

\* ContentRepository.explain(query_text, items). The snippet is the
\* sentence of the body that best matches the query; which sentence that
\* is is abstracted to the whole body (or the summary of an empty body).
explain(query_text, items) ==
  Tup([i \in 1..Len(items) |->
     [content_id |-> items[i].id,
      snippet |-> IF items[i].body # <<>> THEN items[i].body ELSE items[i].summary,
      citation |-> citation_text(items[i]),
      url |-> items[i].source_url]])

\* ---------------------------------------------------------- plan assembly
\* A value of generate_json is [kind, has_items, items_is_list, items, day]:
\*   kind          "object", "array", "string", "number" or "null";
\*   has_items     the truth of `"items" in value` where that is defined (a
\*                 key of the object, an element of the array, a substring
\*                 of the string);
\*   items_is_list, items   the value under the key "items" of an object;
\*   day           the text of str(value["day"]), None when the key is absent.
\* An element of items is a raw item: shape "item" is a mapping pydantic
\* coerces to a PlanItem with the fields given, shape "bad" is anything it
\* rejects.

PlanItem(content_id, title, duration_minutes, why_it_helps, instructions, citation, url) ==
  [content_id |-> content_id, title |-> title, duration_minutes |-> duration_minutes,
   why_it_helps |-> why_it_helps, instructions |-> instructions,
   evidence_citation |-> citation, evidence_url |-> url]

\* Variant of the backfill that writes the citation whether or not the item
\* has one, after what is there.
EnrichItemAppend(item, candidates) ==
  IF \E k \in 1..Len(candidates) : candidates[k].id = item.content_id
    THEN LET k == CHOOSE k \in 1..Len(candidates) :
                    /\ candidates[k].id = item.content_id
                    /\ \A l \in (k + 1)..Len(candidates) : candidates[l].id # item.content_id
             cit == citation_for(candidates[k])
             a == IF ~Truthy(item.evidence_citation)
                    THEN [item EXCEPT !.evidence_citation = cit[1]]
                    ELSE [item EXCEPT !.evidence_citation = @ \o <<";">> \o cit[1]]
         IN IF ~Truthy(a.evidence_url) /\ Truthy(cit[2])
              THEN [a EXCEPT !.evidence_url = cit[2]] ELSE a
    ELSE item

\* Variant of the backfill that writes the candidate's citation over the
\* item's own.
EnrichItemOverwrite(item, candidates) ==
  IF \E k \in 1..Len(candidates) : candidates[k].id = item.content_id
    THEN LET k == CHOOSE k \in 1..Len(candidates) :
                    /\ candidates[k].id = item.content_id
                    /\ \A l \in (k + 1)..Len(candidates) : candidates[l].id # item.content_id
             cit == citation_for(candidates[k])
             a == [item EXCEPT !.evidence_citation = cit[1]]
         IN IF ~Truthy(a.evidence_url) /\ Truthy(cit[2])
              THEN [a EXCEPT !.evidence_url = cit[2]] ELSE a
    ELSE item

\* Orchestrator._enrich_plan_with_citations(plan, candidates).
EnrichItem(item, candidates) ==
  IF \E k \in 1..Len(candidates) : candidates[k].id = item.content_id
    THEN LET k == CHOOSE k \in 1..Len(candidates) :
                    /\ candidates[k].id = item.content_id
                    /\ \A l \in (k + 1)..Len(candidates) : candidates[l].id # item.content_id
             cit == citation_for(candidates[k])
             a == IF ~Truthy(item.evidence_citation)
                    THEN [item EXCEPT !.evidence_citation = cit[1]] ELSE item
         IN IF ~Truthy(a.evidence_url) /\ Truthy(cit[2])
              THEN [a EXCEPT !.evidence_url = cit[2]] ELSE a
    ELSE item

enrich_plan_with_citations(plan, candidates) ==
  [plan EXCEPT !.items =
     Tup([i \in 1..Len(plan.items) |-> EnrichItem(plan.items[i], candidates)])]

\* Variant of the condition of line 97 without its last disjunct
\* (`not plan_json["items"]`): an empty list counts as generated items.
ItemsCheckNoEmpty(g) ==
  CASE g.kind \in {"number", "null"} -> "TypeError"
    [] g.kind \in {"string", "array"} ->
         IF ~g.has_items THEN "fallback" ELSE "AttributeError"
    [] OTHER ->
         IF ~g.has_items \/ ~g.items_is_list THEN "fallback" ELSE "generated"

\* Step 3b, the condition of line 97: "fallback", "generated", or the
\* exception the test itself raises.
ItemsCheck(g) ==
  CASE g.kind \in {"number", "null"} -> "TypeError"
    [] g.kind \in {"string", "array"} ->
         IF ~g.has_items THEN "fallback" ELSE "AttributeError"
    [] OTHER ->
         IF ~g.has_items \/ ~g.items_is_list \/ Len(g.items) = 0
           THEN "fallback" ELSE "generated"

\* Step 3b, the fallback items: pick_durations zipped with the candidates.
FallbackItems(candidates, explanations, signals, available_minutes) ==
  LET durations == pick_durations(available_minutes)
      n == Min2(Len(durations), Len(candidates))
  IN Tup([i \in 1..n |->
        LET c == candidates[i]
            rationale ==
              IF \E e \in 1..Len(explanations) : explanations[e].content_id = c.id
                THEN explanations[CHOOSE e \in 1..Len(explanations) :
                       /\ explanations[e].content_id = c.id
                       /\ \A f \in 1..(e - 1) : explanations[f].content_id # c.id].snippet
                ELSE c.summary
            cit == citation_for(c)
        IN PlanItem(c.id, c.title, Min2(durations[i], available_minutes),
                    rationale \o <<" (themes: ">>
                      \o JoinTexts(<<", ">>, Tup([t \in 1..Len(signals.top_themes) |->
                                                     <<signals.top_themes[t]>>]))
                      \o <<")">>,
                    c.body, cit[1], cit[2])])

\* The single item the two later fallbacks build from the top candidate.
QuickItem(first, available_minutes, why) ==
  LET cit == citation_for(first)
  IN PlanItem(first.id, first.title, Min2(QuickMinutes, available_minutes), why,
              first.body, cit[1], cit[2])

\* Coercion of one raw item: PlanItem(**it).
Coerce(raw) ==
  PlanItem(raw.content_id, raw.title, raw.duration_minutes, raw.why_it_helps,
           raw.instructions, raw.evidence_citation, raw.evidence_url)

\* Variant of the guardrail that substitutes the empty plan for every
\* rejected plan, as line 162 does for an empty candidate list.
GuardrailNoSubstitute(assembled, v, candidates, available_minutes) ==
  LET final == IF v[1] THEN assembled
               ELSE [day |-> <<"today">>, items |-> <<>>, caution |-> v[2]]
  IN enrich_plan_with_citations(final, candidates)

\* Variant of the guardrail that returns the assembled plan whatever the
\* validator said.
GuardrailOff(assembled, v, candidates, available_minutes) ==
  enrich_plan_with_citations(assembled, candidates)

\* Variant of the guardrail whose substitute carries no caution.
GuardrailNoCaution(assembled, v, candidates, available_minutes) ==
  LET final ==
        IF v[1] THEN assembled
        ELSE IF Len(candidates) > 0
          THEN [day |-> <<"today">>,
                items |-> <<QuickItem(candidates[1], available_minutes,
                            <<"Simple, safe, and time-bound. Built from curated wellbeing content.">>)>>,
                caution |-> None]
        ELSE [day |-> <<"today">>, items |-> <<>>, caution |-> None]
  IN enrich_plan_with_citations(final, candidates)

\* Lines 139-163: the guardrail. The plan that passed, or the substitute
\* with the validator's reason as caution; then the second backfill.
Guardrail(assembled, v, candidates, available_minutes) ==
  LET final ==
        IF v[1] THEN assembled
        ELSE IF Len(candidates) > 0
          THEN [day |-> <<"today">>,
                items |-> <<QuickItem(candidates[1], available_minutes,
                            <<"Simple, safe, and time-bound. Built from curated wellbeing content.">>)>>,
                caution |-> v[2]]
        ELSE [day |-> <<"today">>, items |-> <<>>, caution |-> v[2]]
  IN enrich_plan_with_citations(final, candidates)

\* Steps 3b to 5 of Orchestrator.run (lines 96-163):
\*   raised     "" or the exception that leaves run;
\*   path       "generated", "fallback" (construction) or "defensive";
\*   assembled  the plan handed to validate_plan;
\*   ok, plan   the validator's verdict and the plan after line 163.
AssemblePlan(g, candidates, explanations, signals, available_minutes) ==
  LET check == ItemsCheck(g)
      NoPlan == [day |-> <<"today">>, items |-> <<>>, caution |-> None]
      Raise(e) == [raised |-> e, path |-> "", assembled |-> NoPlan, ok |-> FALSE,
                   plan |-> NoPlan]
  IN IF check \in {"TypeError", "AttributeError"} THEN Raise(check)
     ELSE
       LET raw == IF check = "fallback" THEN <<>> ELSE g.items
           parsed == \A i \in 1..Len(raw) : raw[i].shape = "item"
           day == IF check = "fallback" \/ g.day = None THEN <<"today">> ELSE g.day
       IN IF ~parsed /\ Len(candidates) = 0 THEN Raise("IndexError")
          ELSE
            LET built ==
                  IF check = "fallback"
                    THEN [day |-> <<"today">>,
                          items |-> FallbackItems(candidates, explanations, signals,
                                                  available_minutes),
                          caution |-> None]
                  ELSE IF parsed
                    THEN [day |-> day,
                          items |-> Take(Tup([i \in 1..Len(raw) |-> Coerce(raw[i])]), MaxPlanItems),
                          caution |-> None]
                  ELSE [day |-> <<"today">>,
                        items |-> <<QuickItem(candidates[1], available_minutes,
                                              <<"Quick reset">>)>>,
                        caution |-> None]
                Validated(assembled, v) ==
                  [raised |-> "",
                   path |-> IF check = "fallback" THEN "fallback"
                            ELSE IF parsed THEN "generated" ELSE "defensive",
                   assembled |-> assembled,
                   ok |-> v[1],
                   plan |-> Guardrail(assembled, v, candidates, available_minutes)]
                Assembled(assembled) == Validated(assembled, validate_plan(assembled))
            IN Assembled(enrich_plan_with_citations(built, candidates))

\* Orchestrator._plan_explanations(query_text, plan, candidates, explanations).
plan_explanations(query_text, plan, candidates, candidate_explanations) ==
  LET known(i) == \E k \in 1..Len(candidates) : candidates[k].id = plan.items[i].content_id
      content(i) == candidates[CHOOSE k \in 1..Len(candidates) :
                      /\ candidates[k].id = plan.items[i].content_id
                      /\ \A l \in (k + 1)..Len(candidates) :
                           candidates[l].id # plan.items[i].content_id]
      RECURSIVE Collect(_)
      Collect(i) == IF i > Len(plan.items) THEN <<>>
                    ELSE (IF known(i) THEN explain(query_text, <<content(i)>>) ELSE <<>>)
                         \o Collect(i + 1)
      explanations == Collect(1)
  IN IF Len(explanations) > 0 THEN explanations ELSE candidate_explanations

\* ---------------------------------------------------------------- providers
\* A generator text is a sequence of tokens:
\*   "{" and "}";  "m": a member "a": 1;  "k": a key and its colon, "k":
\*   (an object follows);  "w": a word of prose.
JsonTokens == {"{", "}", "m", "k", "w"}

\* json.loads(text): [ok, value]. The texts that parse are the objects
\*   {}   {"a": 1}   {"k": <object>}
\* and the value is the dict, written as its keys and values in order.
RECURSIVE JsonLoads(_)
JsonLoads(text) ==
  LET failed == [ok |-> FALSE, value |-> <<>>]
  IN IF text = <<"{", "}">> THEN [ok |-> TRUE, value |-> <<"dict", "end">>]
     ELSE IF text = <<"{", "m", "}">> THEN [ok |-> TRUE, value |-> <<"dict", "a", "1", "end">>]
     ELSE IF Len(text) >= 4 /\ text[1] = "{" /\ text[2] = "k" /\ text[Len(text)] = "}"
       THEN LET inner == JsonLoads(SubSeq(text, 3, Len(text) - 1))
            IN IF inner.ok
                 THEN [ok |-> TRUE, value |-> <<"dict", "k">> \o inner.value \o <<"end">>]
                 ELSE failed
     ELSE failed

\* re.search(r"\{.*\}", text, flags=re.S): the match, or <<>> for no match.
\* The search is leftmost and .* is greedy: from the first "{" to the last "}".
RegexBlock(text) ==
  LET opens == {i \in 1..Len(text) : text[i] = "{"}
      closes == {i \in 1..Len(text) : text[i] = "}"}
      first == CHOOSE i \in opens : \A j \in opens : i <= j
      last == CHOOSE i \in closes : \A j \in closes : j <= i
  IN IF opens = {} \/ closes = {} THEN <<>>
     ELSE IF last < first THEN <<>>
     ELSE SubSeq(text, first, last)

\* BaseLLM.generate_json on the generator text `text`:
\*   [kind |-> "parsed", value |-> dict]  or  [kind |-> "raw", value |-> text].
generate_json(text) ==
  LET Raw == [kind |-> "raw", value |-> text]
      Second(m) == IF m # <<>> /\ JsonLoads(m).ok
                     THEN [kind |-> "parsed", value |-> JsonLoads(m).value]
                     ELSE Raw
      First(direct) == IF direct.ok THEN [kind |-> "parsed", value |-> direct.value]
                       ELSE Second(RegexBlock(text))
  IN First(JsonLoads(text))

\* ---------------------------------------------------------------- privacy
\* Atoms that are a word [A-Z][a-z]{2,}; in the texts of the model such an
\* atom is a whole word.
CapWords ==
  {"Ice", "Bath", "Fasting", "Supplement", "Breathing", "Reset", "Stretch", "Walk",
   "Did", "Done", "Tired", "Sleep", "Breath"}
\* Atoms that are a run of four or more digits.
LongNumbers == {"2024"}

\* privacy.redact_text(text). The texts of the model hold no e-mail
\* address and no phone number, so the first two substitutions change
\* nothing; the third replaces long numbers, the fourth pairs of
\* capitalised words.
RECURSIVE RedactNames(_, _)
RedactNames(s, i) ==
  IF i > Len(s) THEN <<>>
  ELSE IF /\ i + 2 <= Len(s)
          /\ s[i] \in CapWords /\ s[i + 1] \in {" ", "\n"} /\ s[i + 2] \in CapWords
          /\ i > 1 => s[i - 1] \in NonWordAtoms
          /\ i + 2 < Len(s) => s[i + 3] \in NonWordAtoms
    THEN <<"<name>">> \o RedactNames(s, i + 3)
  ELSE <<s[i]>> \o RedactNames(s, i + 1)

redact_text(text) ==
  IF ~Truthy(text) THEN text
  ELSE RedactNames(Tup([i \in 1..Len(text) |->
                          IF text[i] \in LongNumbers THEN "<number>" ELSE text[i]]), 1)

\* privacy.should_log() for the environment cfg.
should_log(c) == ~(c.optout /\ c.privacy)

\* privacy.redact_conversation(conversation).
redact_conversation(c, conversation) ==
  IF ~c.privacy THEN conversation
  ELSE Tup([i \in 1..Len(conversation) |-> redact_text(conversation[i])])

\* ----------------------------------------------------------------- inputs
Users == {"u1", "u2"}

ContentItem(id, title, summary, tags, body, source_title, source_url) ==
  [id |-> id, title |-> title, summary |-> summary, tags |-> tags, body |-> body,
   score |-> 0, source_title |-> source_title, source_url |-> source_url]

ItemBreathing ==
  ContentItem("ritual-breathing", <<"Breathing", " ", "Reset">>, <<"calm", " ", "breath">>,
              <<"stress", "breathing">>, <<"inhale", ".", " ", "exhale", ".">>,
              <<"Breath", " ", "study">>, <<"http://a">>)
ItemStretch ==
  ContentItem("desk-stretch", <<"Stretch">>, <<"tight", " ", "back">>,
              <<"mobility">>, <<"stretch", " ", "slowly", ".">>, None, None)
ItemSleep ==
  ContentItem("sleep-winddown", <<"Walk">>, <<"sleep", " ", "well">>,
              <<"Sleep", "stress">>, <<>>, <<"Sleep", " ", "study">>, None)
ItemIce ==
  ContentItem("cold-plunge", <<"Ice", " ", "Bath">>, <<"tired", " ", "reset">>,
              <<"energy", "sleep", "stress">>, <<"plunge", ".">>, None, <<"http://b">>)
ItemLog ==
  ContentItem("gratitude-log", <<"log">>, <<"grateful">>, <<>>, <<"write", ".">>,
              <<>>, <<"http://c">>)
ItemFocus ==
  ContentItem("focus-block", <<"focus">>, <<"deep", " ", "work">>, <<"focus">>,
              <<"start", ".">>, None, None)
ItemNap ==
  ContentItem("power-nap", <<"nap">>, <<"rest">>, <<"sleep">>, <<"lie", " ", "down", ".">>,
              None, None)

\* The corpora a process may have loaded; ids are unique in each.
Corpora ==
  << <<>>,
     <<ItemBreathing>>,
     <<ItemBreathing, ItemStretch, ItemSleep>>,
     <<ItemIce, ItemBreathing>>,
     <<ItemLog, ItemFocus, ItemNap, ItemStretch, ItemSleep, ItemBreathing>> >>

\* Conversations: the content of each message, in order.
Conversations ==
  << << <<"ok">>, <<"fine">> >>,
     << <<"Did", " ", "stretch">>, <<"calm">> >>,
     << <<"did", "n", "'", "t", " ", "sleep">>, <<"Tired">> >>,
     << <<"skipped">>, <<"stress", "ed">> >>,
     << >> >>

\* UserContext; available_minutes 0 stands for None, focus_area "" for None.
Context(user_id, mood, available_minutes, focus_area, preferences) ==
  [user_id |-> user_id, mood |-> mood, available_minutes |-> available_minutes,
   focus_area |-> focus_area, preferences |-> preferences]

Profiles ==
  << [mood |-> None, focus_area |-> "", preferences |-> {}],
     [mood |-> <<"tired">>, focus_area |-> "Sleep", preferences |-> {"gentle", "focus"}] >>

RawItem(content_id, title, duration_minutes, citation, url) ==
  [shape |-> "item", content_id |-> content_id, title |-> title,
   duration_minutes |-> duration_minutes, why_it_helps |-> <<"helps">>,
   instructions |-> <<"do">>, evidence_citation |-> citation, evidence_url |-> url]
BadItem == [RawItem("", <<>>, 0, None, None) EXCEPT !.shape = "bad"]

GenObject(has_items, items_is_list, items, day) ==
  [kind |-> "object", has_items |-> has_items, items_is_list |-> items_is_list,
   items |-> items, day |-> day]
GenOther(kind, has_items) ==
  [kind |-> kind, has_items |-> has_items, items_is_list |-> FALSE, items |-> <<>>,
   day |-> None]

\* What generate_json may return. The first is RuleBasedLLM's plan.
GenOutputs ==
  << GenObject(TRUE, TRUE,
               <<RawItem("ritual-breathing", <<"5-Minute", " ", "Breathing", " ", "Reset">>,
                         5, None, None)>>, <<"today">>),
     GenObject(FALSE, FALSE, <<>>, None),
     GenObject(TRUE, FALSE, <<>>, <<"today">>),
     GenObject(TRUE, TRUE, <<>>, <<"today">>),
     GenObject(TRUE, TRUE, <<BadItem>>, <<"today">>),
     GenObject(TRUE, TRUE,
               <<RawItem("desk-stretch", <<"Stretch">>, 10, None, None),
                 RawItem("invented", <<"Walk">>, 20, <<"own", " ", "source">>, <<"http://x">>),
                 RawItem("ritual-breathing", <<"Breathing">>, 5, None, None)>>, None),
     GenObject(TRUE, TRUE,
               <<RawItem("invented", <<"Walk">>, 20, None, None)>>, <<"today">>),
     GenObject(TRUE, TRUE,
               <<RawItem("ritual-breathing", <<"Breathing">>, 300, None, None)>>, <<"today">>),
     GenObject(TRUE, TRUE,
               <<RawItem("ritual-breathing", <<"Breathing">>, 0, None, None),
                 RawItem("desk-stretch", <<"Stretch">>, 5, None, None)>>, <<"today">>),
     GenObject(TRUE, TRUE,
               <<RawItem("invented", <<"Fasting", " ", "day">>, 30, <<"blog">>, None)>>,
               <<"tomorrow">>),
     GenObject(TRUE, TRUE,
               <<RawItem("ritual-breathing", <<"Breathing">>, 5, None, None),
                 RawItem("desk-stretch", <<"Stretch">>, 5, None, None),
                 BadItem>>, <<"today">>),
     GenOther("number", FALSE),
     GenOther("null", FALSE),
     GenOther("string", FALSE),
     GenOther("string", TRUE),
     GenOther("array", FALSE),
     GenOther("array", TRUE) >>

\* context.available_minutes of the sessions (0: None).
AvailChoices == {0, 1, 5, 9, 10, 14, 15, MaxAvailable}

\* ------------------------------------------------------------------ state
VARIABLES
  cfg,            \* the environment: [privacy, optout] (PRIVACY_MODE, PRIVACY_LOGGING_OPTOUT)
  corpus,         \* ContentRepository.items
  clock,          \* datetime.utcnow(), in ticks
  nruns,          \* calls of Orchestrator.run so far
  log,            \* row counts of the tables sessions, steps and plans
  user_metrics,   \* table user_metrics: user_id -> row, for the users that have one
  life_quality,   \* table life_quality: the rows in insertion (id) order
  resp,           \* the outcome of the latest call of run, with its inputs
  pin, pout       \* input and result of a function applied on its own

vars == <<cfg, corpus, clock, nruns, log, user_metrics, life_quality, resp, pin, pout>>

Day(t) == t \div TicksPerDay

\* ---------------------------------------------------------------- storage
\* logging_db.get_user_metrics(user_id): the row, or [present |-> FALSE].
NoMetrics ==
  [present |-> FALSE, streak |-> 0, total_sessions |-> 0, last_seen |-> 0,
   last_reflection_score |-> 0, rolling_reflection_score |-> 0]
get_user_metrics(table, user_id) ==
  IF user_id \in DOMAIN table THEN table[user_id] ELSE NoMetrics

\* logging_db.upsert_user_metrics: the table after the upsert.
upsert_user_metrics(table, user_id, row) ==
  [u \in DOMAIN table \cup {user_id} |-> IF u = user_id THEN row ELSE table[u]]

\* ORDER BY created_at DESC: latest first.
RECURSIVE LatestFirst(_)
LatestFirst(rows) ==
  IF Len(rows) = 0 THEN <<>>
  ELSE LET i == CHOOSE i \in 1..Len(rows) :
                  /\ \A j \in 1..Len(rows) : rows[j].created_at <= rows[i].created_at
                  /\ \A j \in 1..(i - 1) : rows[j].created_at < rows[i].created_at
       IN <<rows[i]>>
          \o LatestFirst(SubSeq(rows, 1, i - 1) \o SubSeq(rows, i + 1, Len(rows)))

Reverse(s) == Tup([i \in 1..Len(s) |-> s[Len(s) + 1 - i]])

\* Variant of fetch_life_quality_history without WHERE user_id = ?.
fetch_all_users(table, user_id, limit) ==
  LET rows == Reverse(Take(LatestFirst(table), limit))
  IN Tup([i \in 1..Len(rows) |->
            [score |-> rows[i].score, created_at |-> rows[i].created_at]])

\* logging_db.fetch_life_quality_history(user_id, limit): the user's
\* latest rows, oldest first, as {score, created_at}.
fetch_life_quality_history(table, user_id, limit) ==
  LET mine == SelectSeq(table, LAMBDA r : r.user_id = user_id)
      rows == Reverse(Take(LatestFirst(mine), limit))
  IN Tup([i \in 1..Len(rows) |->
            [score |-> rows[i].score, created_at |-> rows[i].created_at]])

\* Variant of record_life_quality without the should_log() guard.
record_always(c, table, session_id, user_id, score, now) ==
  Append(table, [session_id |-> session_id, user_id |-> user_id, score |-> score,
                 created_at |-> now])

\* logging_db.record_life_quality: the table after the call.
record_life_quality(c, table, session_id, user_id, score, now) ==
  IF ~should_log(c) THEN table
  ELSE Append(table, [session_id |-> session_id, user_id |-> user_id, score |-> score,
                      created_at |-> now])

\* Variant of _update_user_metrics whose streak grows after any gap of a
\* day or more.
update_user_metrics_any_gap(signals, previous, created_at) ==
  LET diff_days == Day(created_at) - Day(previous.last_seen)
      streak == IF ~previous.present THEN 1
                ELSE IF diff_days = 0 THEN previous.streak
                ELSE previous.streak + 1
      rolling == IF ~previous.present THEN signals.reflection_score
                 ELSE (7 * previous.rolling_reflection_score
                       + 3 * signals.reflection_score) \div 10
  IN [present |-> TRUE, streak |-> streak,
      total_sessions |-> (IF previous.present THEN previous.total_sessions ELSE 0) + 1,
      last_seen |-> created_at, last_reflection_score |-> signals.reflection_score,
      rolling_reflection_score |-> rolling]

\* Variant of _update_user_metrics whose rolling score weighs the previous
\* rolling score and the current score equally.
update_user_metrics_equal_weights(signals, previous, created_at) ==
  LET prev_streak == IF previous.present THEN previous.streak ELSE 0
      prev_total == IF previous.present THEN previous.total_sessions ELSE 0
      diff_days == Day(created_at) - Day(previous.last_seen)
      s == IF ~previous.present THEN 1
           ELSE IF diff_days = 0 THEN prev_streak
           ELSE IF diff_days = 1 THEN prev_streak + 1
           ELSE 1
      streak == IF s <= 0 THEN 1 ELSE s
      rolling == IF ~previous.present THEN signals.reflection_score
                 ELSE (5 * previous.rolling_reflection_score
                       + 5 * signals.reflection_score) \div 10
  IN [present |-> TRUE, streak |-> streak, total_sessions |-> prev_total + 1,
      last_seen |-> created_at, last_reflection_score |-> signals.reflection_score,
      rolling_reflection_score |-> rolling]

\* ---------------------------------------------------------------- metrics
\* Orchestrator._update_user_metrics: the row it upserts and returns.
update_user_metrics(signals, previous, created_at) ==
  LET prev_streak == IF previous.present THEN previous.streak ELSE 0
      prev_total == IF previous.present THEN previous.total_sessions ELSE 0
      diff_days == Day(created_at) - Day(previous.last_seen)
      s == IF ~previous.present THEN 1
           ELSE IF diff_days = 0 THEN prev_streak
           ELSE IF diff_days = 1 THEN prev_streak + 1
           ELSE 1
      streak == IF s <= 0 THEN 1 ELSE s
      rolling == IF ~previous.present THEN signals.reflection_score
                 ELSE (7 * previous.rolling_reflection_score
                       + 3 * signals.reflection_score) \div 10
  IN [present |-> TRUE, streak |-> streak, total_sessions |-> prev_total + 1,
      last_seen |-> created_at, last_reflection_score |-> signals.reflection_score,
      rolling_reflection_score |-> rolling]

\* ----------------------------------------------------------- life quality
\* The argument `metrics` of build_lqi_report that Orchestrator.run passes
\* (line 187): the row written in this session.
LqiMetrics(previous_metrics, current_metrics) == current_metrics

\* build_lqi_report up to the capped score:
\*   sentiment_delta, raw, history (as fetched), score.
LqiFromHistory(history, signals, conversation, metrics) ==
  LET sentiment_delta == IF metrics.present
                           THEN signals.reflection_score - metrics.rolling_reflection_score
                           ELSE 0
      Capped(adherence, raw_score) ==
        [sentiment_delta |-> sentiment_delta, adherence |-> adherence, raw |-> raw_score,
         history |-> history,
         score |-> cap_life_quality_delta(
                     IF Len(history) > 0 THEN Some(history[Len(history)].score) ELSE NoScore,
                     raw_score)]
      Scored2(adherence) ==
        Capped(adherence, compute_lqi_score(signals, sentiment_delta, adherence))
  IN Scored2(infer_action_adherence(conversation))

\* The same, with the history read from the table (line 44).
LqiScore(table, user_id, signals, conversation, metrics) ==
  LqiFromHistory(fetch_life_quality_history(table, user_id, HistoryLimit), signals,
                 conversation, metrics)

\* Variant of the report whose trend compares the two newest snapshots.
LqiReportAdjacent(history, lqi_score, now) ==
  LET Last(all) == SubSeq(all, Max2(1, Len(all) - HistoryLimit + 1), Len(all))
      Report(snapshots) ==
        LET diff == snapshots[Len(snapshots)].score
                    - snapshots[Max2(1, Len(snapshots) - 1)].score
            trend == IF Len(snapshots) >= 2 /\ diff > TrendBand * Scale THEN "up"
                     ELSE IF Len(snapshots) >= 2 /\ diff < -TrendBand * Scale THEN "down"
                     ELSE "steady"
        IN [score |-> lqi_score, trend |-> trend, recent |-> snapshots]
  IN Report(Last(Append(history, [score |-> lqi_score, created_at |-> now])))

\* Variant of the report that returns the whole history, without history[-7:].
LqiReportNoSlice(history, lqi_score, now) ==
  LET Report(snapshots) ==
        LET diff == snapshots[Len(snapshots)].score - snapshots[1].score
            trend == IF Len(snapshots) >= 2 /\ diff > TrendBand * Scale THEN "up"
                     ELSE IF Len(snapshots) >= 2 /\ diff < -TrendBand * Scale THEN "down"
                     ELSE "steady"
        IN [score |-> lqi_score, trend |-> trend, recent |-> snapshots]
  IN Report(Append(history, [score |-> lqi_score, created_at |-> now]))

\* build_lqi_report, the report: score, trend and recent snapshots.
LqiReport(history, lqi_score, now) ==
  LET Last(all) == SubSeq(all, Max2(1, Len(all) - HistoryLimit + 1), Len(all))
      Report(snapshots) ==
        LET diff == snapshots[Len(snapshots)].score - snapshots[1].score
            trend == IF Len(snapshots) >= 2 /\ diff > TrendBand * Scale THEN "up"
                     ELSE IF Len(snapshots) >= 2 /\ diff < -TrendBand * Scale THEN "down"
                     ELSE "steady"
        IN [score |-> lqi_score, trend |-> trend, recent |-> snapshots]
  IN Report(Last(Append(history, [score |-> lqi_score, created_at |-> now])))

\* -------------------------------------------------------- Orchestrator.run
NoResp == [status |-> "none"]

\* One call run(context, conversation) with generate_json returning g: what
\* it does to the store and what it returns.
\* The call reads the clock once per tick: the session starts at `clock`
\* and the clock has moved on by one tick when the call ends.
\* read_ok: whether the SELECT of fetch_life_quality_history succeeds; when
\* it raises (sqlite3.Error: locked or damaged database), nothing between
\* build_lqi_report and the caller of run catches it.
RunWith(context, conversation, g, read_ok) ==
  LET created_at == clock
      session_id == nruns + 1
      logs == should_log(cfg)
      effective_context ==
        IF cfg.privacy /\ Truthy(context.mood)
          THEN [context EXCEPT !.mood = redact_text(context.mood)] ELSE context
      available_minutes ==
        Max2(1, IF context.available_minutes = 0 THEN DefaultMinutes
                ELSE context.available_minutes)
  IN \E effective_conversation \in {redact_conversation(cfg, conversation)} :
     \E signals \in {analyze(effective_conversation, effective_context)} :
     \E previous_metrics \in {get_user_metrics(user_metrics, context.user_id)} :
     \E current_metrics \in {update_user_metrics(signals, previous_metrics, created_at)} :
     \E joined_text \in {JoinTexts(<<" ">>, effective_conversation)} :
     \E candidates \in {search(corpus, joined_text, signals.top_themes, TopK)} :
     \E explanations \in {explain(joined_text, Take(candidates, ExplainK))} :
     \E out \in {AssemblePlan(g, candidates, explanations, signals, available_minutes)} :
     \E inputs \in {[user_id |-> context.user_id, context |-> context,
                     conversation |-> conversation, gen |-> g,
                     available_minutes |-> available_minutes, created_at |-> created_at,
                     signals |-> signals, candidates |-> candidates,
                     previous_metrics |-> previous_metrics,
                     history_read_ok |-> read_ok]} :
       /\ user_metrics' = upsert_user_metrics(user_metrics, context.user_id, current_metrics)
       /\ clock' = clock + 1
       /\ nruns' = nruns + 1
       /\ IF out.raised # ""
            THEN /\ resp' = [status |-> "raised", error |-> out.raised, in |-> inputs]
                 /\ log' = IF logs THEN [log EXCEPT !.sessions = @ + 1, !.steps = @ + 3]
                           ELSE log
                 /\ UNCHANGED life_quality
          ELSE IF ~read_ok
            THEN /\ resp' = [status |-> "raised", error |-> "sqlite3.Error", in |-> inputs]
                 /\ log' = IF logs THEN [log EXCEPT !.sessions = @ + 1, !.steps = @ + 5,
                                                    !.plans = @ + 1]
                           ELSE log
                 /\ UNCHANGED life_quality
            ELSE \E lqi \in {LqiScore(life_quality, context.user_id, signals,
                                      effective_conversation,
                                      LqiMetrics(previous_metrics, current_metrics))} :
                 /\ resp' = [status |-> "ok", in |-> inputs,
                             plan |-> enrich_plan_with_citations(out.plan, candidates),
                             path |-> out.path, ok |-> out.ok, assembled |-> out.assembled,
                             explanations |-> plan_explanations(joined_text, out.plan,
                                                                candidates, explanations),
                             sentiment_delta |-> lqi.sentiment_delta,
                             raw_score |-> lqi.raw,
                             history |-> lqi.history,
                             life_quality |-> LqiReport(lqi.history, lqi.score, created_at)]
                 /\ log' = IF logs THEN [log EXCEPT !.sessions = @ + 1, !.steps = @ + 5,
                                                    !.plans = @ + 1]
                           ELSE log
                 /\ life_quality' = record_life_quality(cfg, life_quality, session_id,
                                                        context.user_id, lqi.score,
                                                        created_at)

\* The call on a database whose reads succeed.
RunCore(context, conversation, g) == RunWith(context, conversation, g, TRUE)

\* One call of run in a process that does nothing else.
Run(context, conversation, g) ==
  /\ RunCore(context, conversation, g)
  /\ UNCHANGED <<cfg, corpus, pin, pout>>

\* The same call as a function of the environment c and of the tables um
\* (user_metrics) and lq (life_quality) of another store: the tables after
\* the call and the response's plan, signals and life-quality report.
Respond(c, um, lq, items, now, session_id, context, conversation, g) ==
  LET effective_context ==
        IF c.privacy /\ Truthy(context.mood)
          THEN [context EXCEPT !.mood = redact_text(context.mood)] ELSE context
      available_minutes ==
        Max2(1, IF context.available_minutes = 0 THEN DefaultMinutes
                ELSE context.available_minutes)
      Finish(signals, current_metrics, candidates, out, effective_conversation) ==
        IF out.raised # ""
          THEN [status |-> "raised", user_metrics |-> upsert_user_metrics(um, context.user_id,
                                                                          current_metrics),
                life_quality |-> lq, signals |-> signals, plan |-> <<>>, report |-> <<>>]
          ELSE LET Reported(lqi) ==
                     [status |-> "ok",
                      user_metrics |-> upsert_user_metrics(um, context.user_id,
                                                           current_metrics),
                      life_quality |-> record_life_quality(c, lq, session_id,
                                                           context.user_id, lqi.score, now),
                      signals |-> signals,
                      plan |-> enrich_plan_with_citations(out.plan, candidates),
                      report |-> LqiReport(lqi.history, lqi.score, now)]
               IN Reported(LqiScore(lq, context.user_id, signals, effective_conversation,
                                    current_metrics))
      Planned(signals, joined_text, candidates, effective_conversation) ==
        Finish(signals,
               update_user_metrics(signals, get_user_metrics(um, context.user_id), now),
               candidates,
               AssemblePlan(g, candidates, explain(joined_text, Take(candidates, ExplainK)),
                            signals, available_minutes),
               effective_conversation)
      Retrieved(signals, joined_text, effective_conversation) ==
        Planned(signals, joined_text, search(items, joined_text, signals.top_themes, TopK),
                effective_conversation)
      Reflected(effective_conversation) ==
        Retrieved(analyze(effective_conversation, effective_context),
                  JoinTexts(<<" ">>, effective_conversation), effective_conversation)
  IN Reflected(redact_conversation(c, conversation))

\* Time passes between sessions.
Tick ==
  /\ clock < MaxClock
  /\ clock' = clock + 1
  /\ UNCHANGED <<cfg, corpus, nruns, log, user_metrics, life_quality, resp, pin, pout>>

Configs == {c \in [privacy : BOOLEAN, optout : BOOLEAN] : TRUE}

InitStore ==
  /\ clock = 0
  /\ nruns = 0
  /\ log = [sessions |-> 0, steps |-> 0, plans |-> 0]
  /\ user_metrics = <<>>
  /\ life_quality = <<>>
  /\ resp = NoResp
  /\ pout = <<>>

\* --- Sessions of the users, one after the other, over one store.
\* The corpus, and per session a <<profile, conversation>> pair and a
\* generator output (RuleBasedLLM's plan, or a JSON number).
SessionCorpus == Corpora[3]
SessionTalks == {<<1, 2>>, <<2, 3>>}
SessionGens == {1, 12}

Init ==
  /\ cfg \in Configs
  /\ corpus = SessionCorpus
  /\ InitStore
  /\ pin = <<>>

Session ==
  /\ nruns < MaxSessions
  /\ clock < MaxClock
  /\ \E u \in Users, t \in SessionTalks, k \in SessionGens :
       Run(Context(u, Profiles[t[1]].mood, 0, Profiles[t[1]].focus_area,
                   Profiles[t[1]].preferences),
           Conversations[t[2]], GenOutputs[k])

Next == Session \/ Tick

Spec == Init /\ [][Next]_vars

\* --- One session for every corpus, generator output and time budget.
InitPlan ==
  /\ cfg \in Configs
  /\ \E k \in 1..Len(Corpora) : corpus = Corpora[k]
  /\ InitStore
  /\ pin = <<>>

PlanSession ==
  /\ nruns = 0
  /\ \E u \in {"u1"}, p \in 1..Len(Profiles), m \in AvailChoices,
        c \in 1..Len(Conversations), k \in 1..Len(GenOutputs) :
       Run(Context(u, Profiles[p].mood, m, Profiles[p].focus_area, Profiles[p].preferences),
           Conversations[c], GenOutputs[k])

NextPlan == PlanSession

SpecPlan == InitPlan /\ [][NextPlan]_vars

\* --- cap_life_quality_delta applied to every previous score and candidate
\* of the grid.
CapStep == Scale \div CapGrid
CapPrevious == {NoScore} \cup {Some(k * CapStep) : k \in 0..(100 * CapGrid)}
CapCandidates ==
  {k * CapStep : k \in (-CapMargin * CapGrid)..((100 + CapMargin) * CapGrid)}

InitCap ==
  /\ cfg = [privacy |-> FALSE, optout |-> FALSE]
  /\ corpus = <<>>
  /\ InitStore
  /\ pin \in CapPrevious \X CapCandidates

CapApply ==
  /\ pout = <<>>
  /\ pout' = <<cap_life_quality_delta(pin[1], pin[2])>>
  /\ UNCHANGED <<cfg, corpus, clock, nruns, log, user_metrics, life_quality, resp, pin>>

NextCap == CapApply

SpecCap == InitCap /\ [][NextCap]_vars

\* ================================================================== claims
\* The scores of user u's rows of life_quality, oldest first.
UserScores(u) ==
  LET mine == SelectSeq(life_quality, LAMBDA r : r.user_id = u)
  IN Tup([i \in 1..Len(mine) |-> mine[i].score])

\* No title of the corpus holds a denylisted keyword.
CorpusSafe == \A i \in 1..Len(corpus) : ~UnsafeTitle(corpus[i].title)

\* The total of the durations of a plan's items.
PlanMinutes(plan) ==
  SumSeq(Tup([i \in 1..Len(plan.items) |-> plan.items[i].duration_minutes]))

\* The generator returned an object with no non-empty list under "items".
NoItemsObject(g) ==
  g.kind = "object" /\ ~(g.has_items /\ g.items_is_list /\ Len(g.items) > 0)

\* C1: for every previous score P in [0,100] and every candidate C,
\* cap_life_quality_delta(P, C) is within 15 points of P and in [0,100];
\* with no previous score it is C clamped to [0,100].
C1_CapLaw ==
  pout # <<>> =>
    /\ 0 <= pout[1] /\ pout[1] <= 100 * Scale
    /\ pin[1] = NoScore => pout[1] = Clamp(0, 100 * Scale, pin[2])
    /\ pin[1] # NoScore => Abs(pout[1] - pin[1][1]) <= CapLimit * Scale

\* C1, the case: a candidate more than 15 points above the previous score
\* comes back as the previous score plus 15.
C1_Witness ==
  /\ pout # <<>> /\ pin[1] # NoScore
  /\ pin[2] - pin[1][1] > CapLimit * Scale
  /\ pout[1] = pin[1][1] + CapLimit * Scale

\* C2: with storage writes enabled, every score stored for a user is in
\* [0,100] and within 15 points of the score stored for that user before it.
C2_StoredScoresCapped ==
  should_log(cfg) =>
    \A u \in Users :
      LET scores == UserScores(u)
      IN /\ \A i \in 1..Len(scores) : 0 <= scores[i] /\ scores[i] <= 100 * Scale
         /\ \A i \in 2..Len(scores) : Abs(scores[i] - scores[i - 1]) <= CapLimit * Scale

\* C2, the case: a session whose raw score was more than 15 points from the
\* user's latest stored score has stored its score, and the other user has
\* a row in between.
C2_Witness ==
  /\ resp.status = "ok" /\ should_log(cfg)
  /\ Len(resp.history) > 0
  /\ Abs(resp.raw_score - resp.history[Len(resp.history)].score) > CapLimit * Scale
  /\ Len(UserScores(resp.in.user_id)) = Len(resp.history) + 1
  /\ Len(life_quality) >= 2
  /\ life_quality[Len(life_quality) - 1].user_id # resp.in.user_id

\* C3 as claimed: every invocation of build_lqi_report appends exactly one
\* record to the user's history, under every privacy/logging configuration.
C3_AlwaysOneRecord ==
  [][(nruns' = nruns + 1 /\ resp'.status = "ok") =>
       /\ Len(life_quality') = Len(life_quality) + 1
       /\ SubSeq(life_quality', 1, Len(life_quality)) = life_quality
       /\ life_quality'[Len(life_quality')].user_id = resp'.in.user_id]_vars

\* C3 as the code has it: an invocation of build_lqi_report appends exactly
\* one record, of the user and holding the report's score, when should_log()
\* holds, and leaves the table as it was when PRIVACY_MODE and
\* PRIVACY_LOGGING_OPTOUT are both set.
C3_OneRecordWhenLogging ==
  [][(nruns' = nruns + 1 /\ resp'.status = "ok") =>
       IF should_log(cfg)
         THEN /\ Len(life_quality') = Len(life_quality) + 1
              /\ SubSeq(life_quality', 1, Len(life_quality)) = life_quality
              /\ life_quality'[Len(life_quality')].user_id = resp'.in.user_id
              /\ life_quality'[Len(life_quality')].score = resp'.life_quality.score
         ELSE life_quality' = life_quality]_vars

\* C3, the case: two sessions have returned a report with privacy mode and
\* the logging opt-out set, and the table is empty.
C3_Witness ==
  /\ cfg.privacy /\ cfg.optout
  /\ resp.status = "ok" /\ nruns >= 2 /\ log.sessions = 0
  /\ life_quality = <<>>

\* C4 as claimed: the sentiment delta of a session is its reflection_score
\* minus the rolling_reflection_score stored before the session, and 0 for
\* a user without previous metrics.
C4_DeltaFromPrevious ==
  resp.status = "ok" =>
    resp.sentiment_delta =
      IF resp.in.previous_metrics.present
        THEN resp.in.signals.reflection_score
             - resp.in.previous_metrics.rolling_reflection_score
        ELSE 0

\* C5 as claimed: the plan built by fallback construction allocates no more
\* than available_minutes in total.
C5_FallbackWithinBudget ==
  (resp.status = "ok" /\ resp.path = "fallback") =>
    PlanMinutes(resp.assembled) <= resp.in.available_minutes

\* C6: every returned plan has at most 2 items, each with a duration in
\* (0,240] and a non-empty evidence_citation.
C6_ReturnedPlanWellFormed ==
  resp.status = "ok" =>
    /\ Len(resp.plan.items) <= MaxPlanItems
    /\ \A i \in 1..Len(resp.plan.items) :
         /\ resp.plan.items[i].duration_minutes > 0
         /\ resp.plan.items[i].duration_minutes <= MaxItemMinutes
         /\ Truthy(resp.plan.items[i].evidence_citation)

\* C6, the case: a generated list of three items came back as a valid plan
\* of two, one of them with the citation of its candidate filled in.
C6_Witness ==
  /\ resp.status = "ok" /\ resp.path = "generated" /\ resp.ok
  /\ Len(resp.in.gen.items) = 3
  /\ Len(resp.plan.items) = MaxPlanItems
  /\ ~Truthy(resp.in.gen.items[1].evidence_citation)

\* C7 as claimed: every returned plan passes validate_plan or has no items,
\* for every corpus and every generator output.
C7_ReturnedPlanSafe ==
  resp.status = "ok" =>
    validate_plan(resp.plan)[1] \/ Len(resp.plan.items) = 0

\* C7 as the code has it: when no title of the corpus holds a denylisted
\* keyword, every returned plan passes validate_plan or has no items.
C7_ReturnedPlanSafeCurated ==
  (resp.status = "ok" /\ CorpusSafe) =>
    validate_plan(resp.plan)[1] \/ Len(resp.plan.items) = 0

\* C7, the case: the validator rejected a generated plan and the plan
\* returned is the one built from the top candidate of a safe corpus.
C7_Witness ==
  /\ resp.status = "ok" /\ CorpusSafe /\ ~resp.ok
  /\ resp.path = "generated"
  /\ Len(resp.plan.items) = 1
  /\ resp.plan.items[1].content_id = resp.in.candidates[1].id
  /\ Truthy(resp.plan.caution)

\* C8 as claimed: whatever generate_json returns, run returns a plan and
\* raises nothing.
C8_RunNeverRaises == resp.status # "raised"

\* C9 as claimed: with an empty corpus, search returns no candidates and
\* run returns a plan with no items and a non-empty caution, for every
\* generator output.
C9_EmptyCorpusEmptyPlan ==
  (corpus = <<>> /\ resp.status # "none") =>
    /\ resp.in.candidates = <<>>
    /\ resp.status = "ok"
    /\ Len(resp.plan.items) = 0
    /\ Truthy(resp.plan.caution)

\* C10 as claimed: when the generator's object has no non-empty list under
\* "items" and the corpus is non-empty, the plan is pick_durations zipped
\* with the top candidates, passes validate_plan and is returned unmodified
\* with no caution.
C10_FallbackPlanReturned ==
  (resp.status # "none" /\ NoItemsObject(resp.in.gen) /\ corpus # <<>>) =>
    /\ resp.status = "ok" /\ resp.path = "fallback"
    /\ LET durations == pick_durations(resp.in.available_minutes)
           items == resp.assembled.items
       IN /\ Len(items) = Min2(Len(durations), Len(resp.in.candidates))
          /\ \A i \in 1..Len(items) :
               /\ items[i].content_id = resp.in.candidates[i].id
               /\ items[i].duration_minutes = Min2(durations[i], resp.in.available_minutes)
    /\ resp.ok
    /\ resp.plan = resp.assembled
    /\ resp.plan.caution = None

\* C10 as the code has it: the same, when no title of the corpus holds a
\* denylisted keyword.
C10_FallbackPlanReturnedCurated ==
  (resp.status # "none" /\ NoItemsObject(resp.in.gen) /\ corpus # <<>> /\ CorpusSafe) =>
    /\ resp.status = "ok" /\ resp.path = "fallback"
    /\ LET durations == pick_durations(resp.in.available_minutes)
           items == resp.assembled.items
       IN /\ Len(items) = Min2(Len(durations), Len(resp.in.candidates))
          /\ \A i \in 1..Len(items) :
               /\ items[i].content_id = resp.in.candidates[i].id
               /\ items[i].duration_minutes = Min2(durations[i], resp.in.available_minutes)
          /\ Len(items) > 0
    /\ resp.ok
    /\ resp.plan = resp.assembled
    /\ resp.plan.caution = None

\* C10, the case: an object without the key "items" and a safe corpus gave
\* a fallback plan of two items that was returned as built.
C10_Witness ==
  /\ resp.status = "ok" /\ CorpusSafe
  /\ ~resp.in.gen.has_items /\ resp.in.gen.kind = "object"
  /\ resp.path = "fallback" /\ resp.ok
  /\ Len(resp.plan.items) = MaxPlanItems
  /\ resp.plan = resp.assembled

\* --- Sessions of one user spread over several days.
InitStreak ==
  /\ cfg = [privacy |-> FALSE, optout |-> FALSE]
  /\ corpus = SessionCorpus
  /\ InitStore
  /\ pin = <<>>

StreakSession ==
  /\ nruns < MaxSessions
  /\ clock < StreakClock
  /\ \E t \in SessionTalks :
       Run(Context("u1", Profiles[t[1]].mood, 0, Profiles[t[1]].focus_area,
                   Profiles[t[1]].preferences),
           Conversations[t[2]], GenOutputs[1])

StreakTick ==
  /\ clock < StreakClock
  /\ clock' = clock + 1
  /\ UNCHANGED <<cfg, corpus, nruns, log, user_metrics, life_quality, resp, pin, pout>>

NextStreak == StreakSession \/ StreakTick

SpecStreak == InitStreak /\ [][NextStreak]_vars

\* C11: the streak stored by a session is the previous streak plus 1 when
\* the session is one calendar day after the stored last_seen, the previous
\* streak when it is the same day, and 1 after a longer gap or for a user
\* without previous metrics.
C11_StreakRule ==
  resp.status # "none" =>
    LET previous == resp.in.previous_metrics
        diff_days == Day(resp.in.created_at) - Day(previous.last_seen)
    IN /\ resp.in.user_id \in DOMAIN user_metrics
       /\ user_metrics[resp.in.user_id].streak =
            IF ~previous.present THEN 1
            ELSE IF diff_days = 1 THEN previous.streak + 1
            ELSE IF diff_days = 0 THEN previous.streak
            ELSE 1

\* C11, the case: a streak of 2 or more is back to 1 after a gap of more
\* than one day.
C11_Witness ==
  /\ resp.status # "none"
  /\ resp.in.previous_metrics.present
  /\ resp.in.previous_metrics.streak >= 2
  /\ Day(resp.in.created_at) - Day(resp.in.previous_metrics.last_seen) > 1
  /\ user_metrics[resp.in.user_id].streak = 1

\* --- validate_plan applied to plans of up to MaxValidateItems items.
ValidateDurations == {-1, 0, 1, MaxItemMinutes, MaxItemMinutes + 1}
ValidateCitations == {None, <<>>, <<"study">>}
ValidateTitles ==
  {<<"Walk">>, <<"Ice", " ", "Bath">>, <<"n", "ice", " ", "bath", "s">>,
   <<"Fasting", " ", "day">>, <<"Supplement", "s">>}
ValidateItems ==
  {PlanItem("c", t, d, <<"helps">>, <<"do">>, c, None) :
     t \in ValidateTitles, d \in ValidateDurations, c \in ValidateCitations}
ValidatePlans ==
  {[day |-> <<"today">>, items |-> Tup(f), caution |-> None] :
     f \in UNION {[1..n -> ValidateItems] : n \in 0..MaxValidateItems}}

\* The variables a function applied on its own leaves at rest.
InitIdle ==
  /\ cfg = [privacy |-> FALSE, optout |-> FALSE]
  /\ corpus = <<>>
  /\ InitStore

InitValidate ==
  /\ InitIdle
  /\ pin \in ValidatePlans

ValidateApply ==
  /\ pout = <<>>
  /\ pout' = <<validate_plan(pin)>>
  /\ UNCHANGED <<cfg, corpus, clock, nruns, log, user_metrics, life_quality, resp, pin>>

NextValidate == ValidateApply

SpecValidate == InitValidate /\ [][NextValidate]_vars

\* C12: validate_plan accepts exactly the plans with a total duration above
\* 0, every duration in (0,240], every evidence_citation non-empty and no
\* title holding fasting, ice bath or supplement in any case; the reason is
\* empty exactly when the plan is accepted.
C12_ValidateExactly ==
  pout # <<>> =>
    LET items == pin.items
        denied(title) ==
          \E kw \in {<<"fasting">>, <<"ice", " ", "bath">>, <<"supplement">>} :
            Contains(Lower(title), kw)
        good ==
          /\ PlanMinutes(pin) > 0
          /\ \A i \in 1..Len(items) :
               /\ items[i].duration_minutes > 0
               /\ items[i].duration_minutes <= 240
               /\ items[i].evidence_citation \notin {None, <<>>}
               /\ ~denied(items[i].title)
    IN /\ pout[1][1] <=> good
       /\ (pout[1][2] = <<>>) <=> pout[1][1]

\* C12, the case: a plan with valid durations and citations is rejected for
\* a title that holds a denylisted keyword in another case.
C12_Witness ==
  /\ pout # <<>> /\ ~pout[1][1]
  /\ Len(pin.items) = 2
  /\ \A i \in 1..2 : /\ pin.items[i].duration_minutes = MaxItemMinutes
                     /\ pin.items[i].evidence_citation = <<"study">>
  /\ pin.items[1].title = <<"Walk">>
  /\ pin.items[2].title = <<"Ice", " ", "Bath">>
\* --- A long run of sessions of one user. The conversations differ only in
\* what they say about the last plan (adherence 0.6, 0.55, 0.35), so that the
\* raw scores are 59, 57 and 49.
HistoryTalks ==
  << << <<"ok">>, <<"fine">> >>,
     << <<"did">>, <<"skipped">> >>,
     << <<"skipped">> >> >>

InitHistory ==
  /\ cfg \in {c \in Configs : c.privacy = c.optout}
  /\ corpus = SessionCorpus
  /\ InitStore
  /\ pin = <<>>

HistorySession ==
  /\ nruns < MaxHistorySessions
  /\ \E t \in 1..Len(HistoryTalks) :
       Run(Context("u1", None, 0, "", {}), HistoryTalks[t], GenOutputs[1])

NextHistory == HistorySession

SpecHistory == InitHistory /\ [][NextHistory]_vars

\* C13: the trend of a report is "up" when the newest snapshot of its recent
\* list exceeds the oldest by more than 2, "down" when it is lower by more
\* than 2, and "steady" otherwise; with fewer than 2 snapshots it is "steady".
C13_TrendRule ==
  resp.status = "ok" =>
    LET recent == resp.life_quality.recent
        diff == recent[Len(recent)].score - recent[1].score
    IN /\ Len(recent) >= 1
       /\ resp.life_quality.trend \in {"up", "down", "steady"}
       /\ Len(recent) < 2 => resp.life_quality.trend = "steady"
       /\ resp.life_quality.trend = "up" <=> diff > 2 * Scale
       /\ resp.life_quality.trend = "down" <=> diff < -2 * Scale

\* A report of three snapshots that is "steady" at a difference of exactly
\* -2, although its newest snapshot is 8 above the one before it.
C13_Witness ==
  /\ resp.status = "ok"
  /\ Len(resp.life_quality.recent) = 3
  /\ resp.life_quality.recent[1].score = 59 * Scale
  /\ resp.life_quality.recent[2].score = 49 * Scale
  /\ resp.life_quality.recent[3].score = 57 * Scale
  /\ resp.life_quality.trend = "steady"

\* The scores stored for the user of the latest session before that session,
\* oldest first.
StoredBefore ==
  LET mine == SelectSeq(life_quality,
                        LAMBDA r : r.user_id = resp.in.user_id /\ r.session_id < nruns)
  IN Tup([i \in 1..Len(mine) |-> mine[i].score])

\* C14: the recent list of a report holds 1 to 7 snapshots, oldest first;
\* its last snapshot is the score of this session, the report's score; the
\* snapshots before it are the user's most recent stored scores.
C14_RecentList ==
  resp.status = "ok" =>
    LET recent == resp.life_quality.recent
        n == Len(recent)
        before == StoredBefore
    IN /\ n >= 1 /\ n <= 7
       /\ n = Min2(7, Len(before) + 1)
       /\ recent[n].score = resp.life_quality.score
       /\ recent[n].created_at = resp.in.created_at
       /\ \A i \in 1..(n - 1) : recent[i].created_at < recent[i + 1].created_at
       /\ \A i \in 1..(n - 1) : recent[i].score = before[Len(before) - (n - 1) + i]
       /\ should_log(cfg) =>
            \E r \in SeqToSet(life_quality) :
               r.session_id = nruns /\ r.score = resp.life_quality.score

\* The eighth session of a user with seven stored scores, not all equal.
C14_Witness ==
  /\ resp.status = "ok"
  /\ nruns = 8
  /\ Len(StoredBefore) = 7
  /\ Len(resp.life_quality.recent) = 7
  /\ StoredBefore[1] # StoredBefore[2]
\* --- infer_action_adherence applied to every conversation of up to
\* MaxAdherenceMessages messages; a message is empty, a neutral word, or one
\* of the listed keywords.
AdherenceTexts ==
  {<<>>, <<"ok">>, <<"walk">>, <<"Did">>, <<"Done">>}
  \cup PositiveKeywords \cup NegativeKeywords

InitAdherence ==
  /\ InitIdle
  /\ pin \in UNION {[1..n -> AdherenceTexts] : n \in 0..MaxAdherenceMessages}

AdherenceApply ==
  /\ pout = <<>>
  /\ pout' = <<infer_action_adherence(Tup(pin))>>
  /\ UNCHANGED <<cfg, corpus, clock, nruns, log, user_metrics, life_quality, resp, pin>>

NextAdherence == AdherenceApply

SpecAdherence == InitAdherence /\ [][NextAdherence]_vars

\* The listed keywords that are messages of the conversation.
KeywordsOf(conversation) ==
  {Lower(conversation[i]) : i \in 1..Len(conversation)}
  \cap (PositiveKeywords \cup NegativeKeywords)

\* C15: infer_action_adherence returns 0.85 for a conversation that contains
\* a positive keyword and no negative one, 0.35 for a negative and no positive
\* one, 0.55 for both, 0.6 for neither or an empty text; and a conversation
\* whose only keyword is one of the listed negative keywords yields 0.35.
C15_AdherenceTable ==
  pout # <<>> =>
    LET text == JoinTexts(<<" ">>, Tup([i \in 1..Len(pin) |-> Lower(pin[i])]))
        positive == \E k \in {<<"completed">>, <<"did">>, <<"finished">>, <<"done">>,
                               <<"stuck", " ", "with">>, <<"followed">>} : Contains(text, k)
        negative == \E k \in {<<"skipped">>, <<"could", "n", "'", "t">>,
                               <<"did", "n", "'", "t">>, <<"avoid">>, <<"failed">>} :
                       Contains(text, k)
    IN /\ (positive /\ ~negative) => pout[1] = Milli(850)
       /\ (negative /\ ~positive) => pout[1] = Milli(350)
       /\ (positive /\ negative) => pout[1] = Milli(550)
       /\ (~positive /\ ~negative) => pout[1] = Milli(600)
       /\ \A k \in {<<"skipped">>, <<"could", "n", "'", "t">>, <<"did", "n", "'", "t">>,
                     <<"avoid">>, <<"failed">>} :
            KeywordsOf(pin) = {k} => pout[1] = Milli(350)
\* --- compute_lqi_score applied to sentiment inputs of the grid over [-2, 2],
\* theme lists with and without "stress" and "sleep", and adherence values
\* of [0, 1].
ScoreStep == Scale \div ScoreGrid
ScoreSentiments == {k * ScoreStep : k \in (-2 * ScoreGrid)..(2 * ScoreGrid)}
ScoreThemes ==
  {<<"mood">>, <<"stress">>, <<"sleep">>, <<"sleep", "stress">>,
   <<"mood", "sleep", "stress">>}
ScoreAdherences == {0, Milli(350), Milli(550), Milli(600), Milli(850), Scale}

InitScore ==
  /\ InitIdle
  /\ pin \in [sentiment_delta : ScoreSentiments, sentiment_calibrated : ScoreSentiments,
              top_themes : ScoreThemes, adherence : ScoreAdherences]

ScoreApply ==
  /\ pout = <<>>
  /\ pout' = <<compute_lqi_score(pin, pin.sentiment_delta, pin.adherence)>>
  /\ UNCHANGED <<cfg, corpus, clock, nruns, log, user_metrics, life_quality, resp, pin>>

NextScore == ScoreApply

SpecScore == InitScore /\ [][NextScore]_vars

\* C16: compute_lqi_score returns
\*   clamp(65 + 20 clamp(sentiment_delta, -1, 1) + 25 clamp(calibrated, -1, 1)
\*         + theme_penalty + 40 (adherence - 0.5), 0, 100)
\* with theme_penalty -10 for "stress" plus -5 for "sleep" (between -15 and
\* 0), and the result is in [0, 100].
C16_ScoreFormula ==
  pout # <<>> =>
    LET themes == SeqToSet(pin.top_themes)
        penalty == (IF "stress" \in themes THEN -10 ELSE 0)
                   + (IF "sleep" \in themes THEN -5 ELSE 0)
        sd == Max2(-Scale, Min2(Scale, pin.sentiment_delta))
        cal == Max2(-Scale, Min2(Scale, pin.sentiment_calibrated))
        sum == 65 * Scale + 20 * sd + 25 * cal + penalty * Scale
               + 40 * (pin.adherence - Scale \div 2)
    IN /\ penalty >= -15 /\ penalty <= 0
       /\ pout[1] = Max2(0, Min2(100 * Scale, sum))
       /\ pout[1] >= 0 /\ pout[1] <= 100 * Scale

\* Both sentiment inputs out of range, both themes, and a result strictly
\* inside the range: 65 + 20 - 25 - 15 + 14 = 59.
C16_Witness ==
  /\ pout = <<59 * Scale>>
  /\ pin.sentiment_delta = 2 * Scale
  /\ pin.sentiment_calibrated = -2 * Scale
  /\ pin.top_themes = <<"sleep", "stress">>
  /\ pin.adherence = Milli(850)
\* --- Calls of search, one after the other, on one repository. A call reads
\* the items, the fitted encoder and the vector store and writes none of them.
SearchQueries == {<<"tight", " ", "back", " ", "sleep">>, <<"calm">>}
SearchThemes == {<<>>, <<"Sleep">>, <<"mood", "sleep", "stress">>}
SearchTopK == {2, TopK}

InitSearch ==
  /\ cfg = [privacy |-> FALSE, optout |-> FALSE]
  /\ \E k \in 1..Len(Corpora) : corpus = Corpora[k]
  /\ InitStore
  /\ pin = <<>>

\* pout: the calls so far, each with its arguments and its result.
SearchCall ==
  /\ Len(pout) < MaxSearches
  /\ \E q \in SearchQueries, th \in SearchThemes, k \in SearchTopK :
       pout' = Append(pout, [query_text |-> q, themes |-> th, topk |-> k,
                             results |-> search(corpus, q, th, k)])
  /\ UNCHANGED <<cfg, corpus, clock, nruns, log, user_metrics, life_quality, resp, pin>>

NextSearch == SearchCall

SpecSearch == InitSearch /\ [][NextSearch]_vars

\* The position of the item `id` in the corpus.
CorpusIndex(id) == CHOOSE i \in 1..Len(corpus) : corpus[i].id = id

\* similarity + 0.12 per theme that is a tag of the item, both lowercased,
\* in thousandths.
Boosted(item, query_text, themes) ==
  Similarity(item, query_text)
  + 120 * Cardinality({LowerAtom(t) : t \in SeqToSet(item.tags)}
                      \cap {LowerAtom(t) : t \in SeqToSet(themes)})

SentimentStep == Scale \div SentimentGrid
Backends ==
  {<<"heuristic", 0>>}
  \cup {<<"vader", k * SentimentStep>> : k \in (-SentimentGrid)..SentimentGrid}
  \cup {<<"distilbert", k * SentimentStep>> : k \in 0..SentimentGrid}
AnalyzeTalks ==
  {Conversations[c] : c \in 1..Len(Conversations)}
  \cup {<< <<"calm", " ", "focus">>, <<"ready">> >>,
        << <<"happy", " ", "calm", " ", "good", " ", "focus", " ", "alert">> >>,
        << <<"sad", " ", "tired", " ", "bad", " ", "anxious">> >>}
AnalyzeMoods == {None, <<"tired">>, <<"great">>}

InitAnalyze ==
  /\ InitIdle
  /\ pin \in [backend : Backends, conversation : AnalyzeTalks, profile : 1..Len(Profiles),
              mood : AnalyzeMoods]

AnalyzeApply ==
  /\ pout = <<>>
  /\ pout' = <<AnalyzeBackend(pin.backend[1], pin.backend[2], pin.conversation,
                              Context("u1", pin.mood, 0, Profiles[pin.profile].focus_area,
                                      Profiles[pin.profile].preferences))>>
  /\ UNCHANGED <<cfg, corpus, clock, nruns, log, user_metrics, life_quality, resp, pin>>

NextAnalyze == AnalyzeApply

SpecAnalyze == InitAnalyze /\ [][NextAnalyze]_vars

\* C18: under every backend, analyze returns a confidence in [0, 1], a
\* calibrated sentiment in [-1, 1], a reflection score in [0, 1] and at
\* least one theme.
C18_SignalRanges ==
  pout # <<>> =>
    /\ pout[1].sentiment_confidence >= 0 /\ pout[1].sentiment_confidence <= Scale
    /\ pout[1].sentiment_calibrated >= -Scale /\ pout[1].sentiment_calibrated <= Scale
    /\ pout[1].reflection_score >= 0 /\ pout[1].reflection_score <= Scale
    /\ Len(pout[1].top_themes) >= 1

\* The distilbert backend at probability 1 on a text of two themes and high
\* energy: 0.5 + 0.4 + 0.1 + 0.08 is clamped to 1.
C18_Witness ==
  /\ pout # <<>>
  /\ pin.backend = <<"distilbert", Scale>>
  /\ pout[1].sentiment_calibrated = Scale
  /\ pout[1].energy_level = "high"
  /\ Len(pout[1].top_themes) = 2
  /\ pout[1].reflection_score = Scale
\* --- generate_json applied to every generator text of up to MaxJsonTokens
\* tokens.
InitJson ==
  /\ InitIdle
  /\ pin \in UNION {[1..n -> JsonTokens] : n \in 0..MaxJsonTokens}

JsonApply ==
  /\ pout = <<>>
  /\ pout' = <<generate_json(Tup(pin))>>
  /\ UNCHANGED <<cfg, corpus, clock, nruns, log, user_metrics, life_quality, resp, pin>>

NextJson == JsonApply

SpecJson == InitJson /\ [][NextJson]_vars

\* Braces opened and not closed in text[i..j].
RECURSIVE Depth(_, _, _)
Depth(text, i, j) ==
  IF j < i THEN 0
  ELSE Depth(text, i, j - 1)
       + (IF text[j] = "{" THEN 1 ELSE IF text[j] = "}" THEN -1 ELSE 0)

\* The first balanced-brace substring of the text: from the first "{" that
\* is closed to the "}" that closes it; <<>> if there is none.
FirstBalanced(text) ==
  LET Closing(i) == {j \in i..Len(text) :
                       /\ Depth(text, i, j) = 0
                       /\ \A h \in i..(j - 1) : Depth(text, i, h) > 0}
      starts == {i \in 1..Len(text) : text[i] = "{" /\ Closing(i) # {}}
      first == CHOOSE i \in starts : \A h \in starts : i <= h
  IN IF starts = {} THEN <<>>
     ELSE SubSeq(text, first, CHOOSE j \in Closing(first) : TRUE)

\* C19: generate_json returns the direct parse of a text that is valid JSON;
\* otherwise the parse of the first balanced-brace substring of the text, when
\* there is one and it parses; otherwise {"raw": text}. A valid object
\* followed by further text with braces yields that object.
C19_FirstBalancedBlock ==
  pout # <<>> =>
    LET text == Tup(pin)
        block == FirstBalanced(text)
    IN pout[1] = IF JsonLoads(text).ok
                   THEN [kind |-> "parsed", value |-> JsonLoads(text).value]
                 ELSE IF block # <<>> /\ JsonLoads(block).ok
                   THEN [kind |-> "parsed", value |-> JsonLoads(block).value]
                 ELSE [kind |-> "raw", value |-> text]
\* --- The backfill applied again and again to one plan, as Orchestrator.run
\* does at lines 137, 163 and 180: each application works on the plan the one
\* before it returned.
BackfillIds == {"ritual-breathing", "sleep-winddown", "gratitude-log", "invented"}
BackfillTexts == {None, <<>>, <<"own">>}
BackfillItems ==
  {PlanItem(c, <<"Walk">>, 5, <<"helps">>, <<"do">>, cit, url) :
     c \in BackfillIds, cit \in BackfillTexts, url \in BackfillTexts}
BackfillPlans ==
  {[day |-> <<"today">>, items |-> Tup(f), caution |-> None] :
     f \in UNION {[1..n -> BackfillItems] : n \in 0..MaxBackfillItems}}
BackfillCandidates == {Corpora[1], Corpora[3], Corpora[5]}

InitBackfill ==
  /\ InitIdle
  /\ pin \in [plan : BackfillPlans, candidates : BackfillCandidates]

\* pout: the plan after each application so far.
BackfillApply ==
  /\ Len(pout) < Backfills
  /\ pout' = Append(pout, enrich_plan_with_citations(
                            IF pout = <<>> THEN pin.plan ELSE pout[Len(pout)],
                            pin.candidates))
  /\ UNCHANGED <<cfg, corpus, clock, nruns, log, user_metrics, life_quality, resp, pin>>

NextBackfill == BackfillApply

SpecBackfill == InitBackfill /\ [][NextBackfill]_vars

\* C20: the backfill applied to a backfilled plan returns that plan: the
\* second and the third application leave the plan of the first unchanged.
C20_BackfillIdempotent ==
  \A i \in 1..Len(pout) :
    /\ pout[i] = pout[1]
    /\ enrich_plan_with_citations(pout[i], pin.candidates) = pout[i]

\* Three applications to a plan of two items: the first item has its own
\* citation and gets the candidate's URL, the second gets the candidate's
\* citation and has no URL to get.
C20_Witness ==
  /\ Len(pout) = 3
  /\ Len(pin.plan.items) = 2
  /\ pin.plan.items[1].content_id = "ritual-breathing"
  /\ pin.plan.items[1].evidence_citation = <<"own">>
  /\ pin.plan.items[1].evidence_url = None
  /\ pout[3].items[1].evidence_citation = <<"own">>
  /\ pout[3].items[1].evidence_url = <<"http://a">>
  /\ pin.plan.items[2].content_id = "sleep-winddown"
  /\ pin.plan.items[2].evidence_citation = <<>>
  /\ pout[3].items[2].evidence_citation = <<"sleep-winddown", ":", "Sleep">>
  /\ pout[3].items[2].evidence_url = None
\* --- The same sessions on two stores: the process's own, with privacy mode
\* on and logging on, and a second one with PRIVACY_LOGGING_OPTOUT set, where
\* should_log() is false. pout holds the second store and its latest response.
TwinOff == [privacy |-> TRUE, optout |-> TRUE]

InitTwin ==
  /\ cfg = [privacy |-> TRUE, optout |-> FALSE]
  /\ corpus = SessionCorpus
  /\ clock = 0
  /\ nruns = 0
  /\ log = [sessions |-> 0, steps |-> 0, plans |-> 0]
  /\ user_metrics = <<>>
  /\ life_quality = <<>>
  /\ resp = NoResp
  /\ pin = <<>>
  /\ pout = [user_metrics |-> <<>>, life_quality |-> <<>>, status |-> "none"]

TwinSession ==
  /\ nruns < MaxSessions
  /\ \E u \in Users, t \in 1..Len(HistoryTalks) :
       /\ RunCore(Context(u, None, 0, "", {}), HistoryTalks[t], GenOutputs[1])
       /\ pout' = Respond(TwinOff, pout.user_metrics, pout.life_quality, corpus, clock,
                          nruns + 1, Context(u, None, 0, "", {}), HistoryTalks[t],
                          GenOutputs[1])
  /\ UNCHANGED <<cfg, corpus, pin>>

NextTwin == TwinSession

SpecTwin == InitTwin /\ [][NextTwin]_vars

\* C21: the plan, the signals and the life-quality report returned for a
\* session are the same on the store that logs and on the store whose writes
\* are no-ops under the logging-disabled policy.
C21_SameResponseWithoutLogging ==
  (resp.status = "ok" /\ pout.status = "ok") =>
    /\ pout.plan = resp.plan
    /\ pout.signals = resp.in.signals
    /\ pout.report = resp.life_quality
\* --- Sessions on a database whose history read may fail.
InitFault ==
  /\ cfg \in Configs
  /\ corpus = SessionCorpus
  /\ InitStore
  /\ pin = <<>>

FaultSession ==
  /\ nruns < MaxSessions
  /\ \E u \in Users, t \in 1..Len(HistoryTalks), read_ok \in BOOLEAN :
       RunWith(Context(u, None, 0, "", {}), HistoryTalks[t], GenOutputs[1], read_ok)
  /\ UNCHANGED <<cfg, corpus, pin, pout>>

NextFault == FaultSession

SpecFault == InitFault /\ [][NextFault]_vars

\* C22: a session whose read of the life-quality history fails still returns
\* its response, with the user treated as having no history: the score is the
\* raw score, within [0, 100], and it is the only snapshot.
C22_ReadFailureDegrades ==
  (resp.status # "none" /\ ~resp.in.history_read_ok) =>
    /\ resp.status = "ok"
    /\ resp.life_quality.score = resp.raw_score
    /\ resp.life_quality.score >= 0 /\ resp.life_quality.score <= 100 * Scale
    /\ Len(resp.life_quality.recent) = 1
\* C23: in every response, the content_id of each item of the plan is the
\* content_id of one of the returned explanations, also for a generated item
\* that carries its own citation and an id that no candidate has.
C23_PlanItemsExplained ==
  resp.status = "ok" =>
    \A i \in 1..Len(resp.plan.items) :
      \E e \in 1..Len(resp.explanations) :
        resp.explanations[e].content_id = resp.plan.items[i].content_id
\* C24: on a non-empty corpus every returned plan has an item, whether it
\* is the generated plan, the fallback construction, the defensive fallback
\* or the guardrail's substitute.
C24_PlanNeverEmpty ==
  (resp.status = "ok" /\ corpus # <<>>) =>
    /\ resp.path \in {"generated", "fallback", "defensive"}
    /\ Len(resp.plan.items) >= 1

\* The guardrail's substitute for a rejected defensive fallback (the top
\* candidate's title is on the denylist).
C24_Witness ==
  /\ resp.status = "ok"
  /\ corpus # <<>>
  /\ resp.path = "defensive"
  /\ ~resp.ok
  /\ Len(resp.plan.items) = 1
\* --- Sessions of the two users running concurrently, one session per user
\* at a time. A session touches the tables user_metrics and life_quality in
\* four statements, each atomic in SQLite; statements of different sessions
\* interleave freely. Every statement takes a clock tick.
\*   pin[u]   the session of u in flight: where it is and what it has read;
\*   pout[u]  a store of u's own, on which u's sessions run one at a time.
ConcurrentTalks == << << <<"skipped">> >>, << <<"done">> >> >>

IdleSession ==
  [pc |-> "idle", created_at |-> 0, session_id |-> 0, talk |-> 1,
   previous |-> NoMetrics, current |-> NoMetrics, history |-> <<>>]

ConcurrentContext(u) == Context(u, None, 0, "", {})

InitConcurrent ==
  /\ cfg = [privacy |-> FALSE, optout |-> FALSE]
  /\ corpus = SessionCorpus
  /\ clock = 0
  /\ nruns = 0
  /\ log = [sessions |-> 0, steps |-> 0, plans |-> 0]
  /\ user_metrics = <<>>
  /\ life_quality = <<>>
  /\ resp = NoResp
  /\ pin = [u \in Users |-> IdleSession]
  /\ pout = [u \in Users |-> [user_metrics |-> <<>>, life_quality |-> <<>>]]

\* Lines 41-61: the session starts and reads the clock.
StartSession(u) ==
  /\ pin[u].pc = "idle"
  /\ nruns < MaxSessions
  /\ \E t \in 1..Len(ConcurrentTalks) :
       pin' = [pin EXCEPT ![u] = [IdleSession EXCEPT !.pc = "started", !.created_at = clock,
                                                     !.session_id = nruns + 1, !.talk = t]]
  /\ nruns' = nruns + 1
  /\ clock' = clock + 1
  /\ log' = [log EXCEPT !.sessions = @ + 1, !.steps = @ + 1]
  /\ UNCHANGED <<cfg, corpus, user_metrics, life_quality, resp, pout>>

\* Line 64: get_user_metrics.
ReadMetrics(u) ==
  /\ pin[u].pc = "started"
  /\ pin' = [pin EXCEPT ![u].pc = "read",
                         ![u].previous = get_user_metrics(user_metrics, u)]
  /\ clock' = clock + 1
  /\ UNCHANGED <<cfg, corpus, nruns, log, user_metrics, life_quality, resp, pout>>

\* Lines 65-72: _update_user_metrics and its upsert.
WriteMetrics(u) ==
  /\ pin[u].pc = "read"
  /\ \E row \in {update_user_metrics(
                    analyze(ConcurrentTalks[pin[u].talk], ConcurrentContext(u)),
                    pin[u].previous, pin[u].created_at)} :
       /\ pin' = [pin EXCEPT ![u].pc = "written", ![u].current = row]
       /\ user_metrics' = upsert_user_metrics(user_metrics, u, row)
  /\ clock' = clock + 1
  /\ log' = [log EXCEPT !.steps = @ + 1]
  /\ UNCHANGED <<cfg, corpus, nruns, life_quality, resp, pout>>

\* Lines 74-181 and life_quality.py line 44: the plan is made and logged,
\* then build_lqi_report reads the history.
ReadHistory(u) ==
  /\ pin[u].pc = "written"
  /\ pin' = [pin EXCEPT ![u].pc = "fetched",
                         ![u].history = fetch_life_quality_history(life_quality, u,
                                                                   HistoryLimit)]
  /\ clock' = clock + 1
  /\ log' = [log EXCEPT !.steps = @ + 3, !.plans = @ + 1]
  /\ UNCHANGED <<cfg, corpus, nruns, user_metrics, life_quality, resp, pout>>

\* life_quality.py lines 45-58: the score is capped against the history
\* read and recorded; the session ends. The store of u's own runs the same
\* session in one piece.
WriteScore(u) ==
  /\ pin[u].pc = "fetched"
  /\ \E lqi \in {LqiFromHistory(pin[u].history,
                                 analyze(ConcurrentTalks[pin[u].talk], ConcurrentContext(u)),
                                 ConcurrentTalks[pin[u].talk], pin[u].current)} :
       /\ life_quality' = record_life_quality(cfg, life_quality, pin[u].session_id, u,
                                              lqi.score, clock)
       /\ resp' = [status |-> "ok", user_id |-> u,
                   life_quality |-> LqiReport(pin[u].history, lqi.score, clock)]
  /\ \E own \in {Respond(cfg, pout[u].user_metrics, pout[u].life_quality, corpus,
                          pin[u].created_at, pin[u].session_id, ConcurrentContext(u),
                          ConcurrentTalks[pin[u].talk], GenOutputs[1])} :
       pout' = [pout EXCEPT ![u] = [user_metrics |-> own.user_metrics,
                                    life_quality |-> own.life_quality]]
  /\ pin' = [pin EXCEPT ![u] = IdleSession]
  /\ clock' = clock + 1
  /\ UNCHANGED <<cfg, corpus, nruns, log, user_metrics>>

NextConcurrent ==
  \E u \in Users :
    \/ StartSession(u)
    \/ ReadMetrics(u)
    \/ WriteMetrics(u)
    \/ ReadHistory(u)
    \/ WriteScore(u)

SpecConcurrent == InitConcurrent /\ [][NextConcurrent]_vars

\* The scores of the rows of user u in a life_quality table, oldest first.
ScoresIn(table, u) ==
  LET mine == SelectSeq(table, LAMBDA r : r.user_id = u)
  IN Tup([i \in 1..Len(mine) |-> mine[i].score])

\* Between its sessions, a user's metrics row and scores are those of the
\* store of its own.
SameAsAlone ==
  \A u \in Users :
    pin[u].pc = "idle" =>
      /\ get_user_metrics(user_metrics, u) = get_user_metrics(pout[u].user_metrics, u)
      /\ ScoresIn(life_quality, u) = ScoresIn(pout[u].life_quality, u)

\* A step of one user's session leaves the row and the history of every
\* other user as they were.
OthersUntouched ==
  \A u \in Users :
    pin'[u] = pin[u] =>
      /\ get_user_metrics(user_metrics', u) = get_user_metrics(user_metrics, u)
      /\ SelectSeq(life_quality', LAMBDA r : r.user_id = u)
           = SelectSeq(life_quality, LAMBDA r : r.user_id = u)

\* C25: sessions of different users are isolated: no step of a session
\* changes another user's metrics or history, and whatever the interleaving
\* of concurrent sessions of different users, each user's metrics and scores
\* are those that its sessions produce when run one after the other.
C25_UsersIsolated == []SameAsAlone /\ [][OthersUntouched]_vars

\* Both users have completed a session that overlapped the other's: the
\* second user's history was read while the first user's score, 15 or more
\* away, was already stored.
C25_Witness ==
  /\ pin["u1"].pc = "idle" /\ pin["u2"].pc = "fetched"
  /\ ScoresIn(life_quality, "u1") = <<49 * Scale>>
  /\ pin["u2"].talk = 2
  /\ pin["u2"].created_at < life_quality[1].created_at
  /\ pin["u2"].history = <<>>
\* --- pick_durations over every time budget up to MaxPickMinutes, and the
\* fallback plans of SpecPlan.
MaxPickMinutes == 35
PickDomain == 0..MaxPickMinutes

\* What pick_durations(m) is said to return.
PickedAsStated(m) ==
  LET picked == pick_durations(m)
      qualifying == SelectSeq(DurationLadder, LAMBDA s : s <= Max2(5, m))
  IN /\ picked = SubSeq(qualifying, 1, Min2(2, Len(qualifying)))
     /\ Len(picked) \in 1..2
     /\ m < 10 => picked = <<5>>
     /\ m >= 10 => picked = <<5, 10>>

FallbackOneItem ==
  /\ Len(resp.plan.items) = 1
  /\ resp.plan.items[1].duration_minutes = Min2(5, resp.in.available_minutes)

C27_CautionIffRejected ==
  resp.status = "ok" =>
    LET v == validate_plan(resp.assembled)
        items == resp.plan.items
        candidates == resp.in.candidates
    IN /\ resp.ok = v[1]
       /\ (resp.plan.caution # None) <=> ~v[1]
       /\ ~v[1] =>
            /\ resp.plan.caution = v[2]
            /\ v[2] # <<>>
            /\ IF Len(candidates) > 0
                 THEN /\ Len(items) = 1
                      /\ items[1].content_id = candidates[1].id
                      /\ items[1].title = candidates[1].title
                      /\ items[1].instructions = candidates[1].body
                      /\ items[1].duration_minutes = Min2(5, resp.in.available_minutes)
                 ELSE items = <<>>
       /\ v[1] => /\ items = resp.assembled.items
                  /\ resp.plan.caution = None

\* A generated plan of two items was rejected and replaced by the one-item
\* plan, with the reason as caution.
C27_Witness ==
  /\ resp.status = "ok" /\ resp.path = "generated" /\ ~resp.ok
  /\ Len(resp.assembled.items) = 2
  /\ Len(resp.plan.items) = 1
  /\ resp.plan.caution = validate_plan(resp.assembled)[2]
  /\ resp.plan.caution # None
\* The text holds none of the keywords of the theme, energy and sentiment
\* lists, in any case and at any position.
Keywordless(text) ==
  LET tl == Lower(text)
  IN \A kw \in PosWords \cup NegWords \cup LowEnergyWords \cup HighEnergyWords
               \cup UNION {THEME_KEYWORDS(ThemeNames[k]) : k \in 1..Len(ThemeNames)} :
       ~Contains(tl, kw)

NeutralDefaults ==
  (/\ pin.backend[1] = "heuristic"
   /\ Keywordless(JoinTexts(<<"\n">>, pin.conversation))
   /\ Profiles[pin.profile].focus_area = ""
   /\ Profiles[pin.profile].preferences = {}
   /\ pin.mood = None)
  => /\ pout[1].sentiment = 0
     /\ pout[1].top_themes = <<"stress">>
     /\ pout[1].energy_level = "medium"

\* C28 as stated: a conversation without any theme, energy or sentiment
\* keyword, with no focus_area, preferences or mood, gives sentiment 0,
\* themes ["stress"] and energy "medium" under the heuristic backend; and a
\* given focus_area is among the returned themes.
C28_FocusAmongThemes ==
  pout # <<>> =>
    /\ NeutralDefaults
    /\ Profiles[pin.profile].focus_area # "" =>
         Profiles[pin.profile].focus_area \in SeqToSet(pout[1].top_themes)

\* C28 (amended): the same defaults; and a given focus_area is among the
\* returned themes in lower case.
C28_LoweredFocusAmongThemes ==
  pout # <<>> =>
    /\ NeutralDefaults
    /\ Profiles[pin.profile].focus_area # "" =>
         LowerAtom(Profiles[pin.profile].focus_area) \in SeqToSet(pout[1].top_themes)

\* The empty conversation with focus area "Sleep" and no mood: the themes
\* hold "sleep", not "Sleep"; sentiment 0 and energy "medium".
C28_Witness ==
  /\ pout # <<>>
  /\ pin.backend[1] = "heuristic" /\ pin.conversation = <<>> /\ pin.mood = None
  /\ Profiles[pin.profile].focus_area = "Sleep"
  /\ "sleep" \in SeqToSet(pout[1].top_themes)
  /\ "Sleep" \notin SeqToSet(pout[1].top_themes)
  /\ pout[1].sentiment = 0 /\ pout[1].energy_level = "medium"
\* What one backfill may change between the plans before and after.
OnlyMissingFilled(before, after, candidates) ==
  /\ after.day = before.day
  /\ after.caution = before.caution
  /\ Len(after.items) = Len(before.items)
  /\ \A i \in 1..Len(before.items) :
       LET b == before.items[i]
           a == after.items[i]
       IN /\ a.content_id = b.content_id
          /\ a.title = b.title
          /\ a.duration_minutes = b.duration_minutes
          /\ a.why_it_helps = b.why_it_helps
          /\ a.instructions = b.instructions
          /\ (\A k \in 1..Len(candidates) : candidates[k].id # b.content_id) => a = b
          /\ (b.evidence_citation \notin {None, <<>>}) =>
               a.evidence_citation = b.evidence_citation
          /\ (b.evidence_url \notin {None, <<>>}) => a.evidence_url = b.evidence_url

\* C29: the citation backfill changes only missing fields: an item whose
\* content_id matches no candidate is left exactly as it was, an item with
\* a non-empty evidence_citation keeps it, and nothing but evidence_citation
\* and evidence_url of an item changes: not its other fields, not the order
\* of the items, not the day or the caution of the plan.
C29_BackfillFrame ==
  \A i \in 1..Len(pout) :
    OnlyMissingFilled(IF i = 1 THEN pin.plan ELSE pout[i - 1], pout[i], pin.candidates)

\* A plan of two items is backfilled: the unknown item without a citation
\* stays as it was, the known item keeps its own citation and gets the URL.
C29_Witness ==
  /\ Len(pout) >= 1
  /\ Len(pin.plan.items) = 2
  /\ pin.plan.items[1].content_id = "invented"
  /\ pin.plan.items[1].evidence_citation = <<>>
  /\ pout[1].items[1] = pin.plan.items[1]
  /\ pin.plan.items[2].content_id = "ritual-breathing"
  /\ pin.plan.items[2].evidence_citation = <<"own">>
  /\ pin.plan.items[2].evidence_url = None
  /\ pout[1].items[2].evidence_citation = <<"own">>
  /\ pout[1].items[2].evidence_url = <<"http://a">>
  /\ pout[1] # pin.plan
\* --- Sessions of one user, one after the other, spread over several days,
\* under each privacy configuration.
InitMetrics ==
  /\ cfg \in Configs
  /\ corpus = SessionCorpus
  /\ InitStore
  /\ pin = <<>>

MetricsSession ==
  /\ nruns < MaxSessions
  /\ clock < StreakClock
  /\ \E t \in SessionTalks :
       Run(Context("u1", Profiles[t[1]].mood, 0, Profiles[t[1]].focus_area,
                   Profiles[t[1]].preferences),
           Conversations[t[2]], GenOutputs[1])

MetricsTick ==
  /\ clock < StreakClock
  /\ clock' = clock + 1
  /\ UNCHANGED <<cfg, corpus, nruns, log, user_metrics, life_quality, resp, pin, pout>>

NextMetrics == MetricsSession \/ MetricsTick

SpecMetrics == InitMetrics /\ [][NextMetrics]_vars

\* The stored row after nruns completed sessions.
MetricsAfterSessions ==
  LET row == get_user_metrics(user_metrics, "u1")
  IN IF nruns = 0 THEN ~row.present
     ELSE /\ row.present
          /\ resp.status = "ok"
          /\ row.total_sessions = nruns
          /\ row.streak >= 1
          /\ row.rolling_reflection_score >= 0
          /\ row.rolling_reflection_score <= Scale

\* A session writes the row once, from the row stored before it; nothing
\* else writes it.
MetricsWrittenOnce ==
  LET before == get_user_metrics(user_metrics, "u1")
      after == get_user_metrics(user_metrics', "u1")
      score == resp'.in.signals.reflection_score
  IN IF nruns' = nruns THEN user_metrics' = user_metrics
     ELSE /\ nruns' = nruns + 1
          /\ after.total_sessions = before.total_sessions + 1
          /\ after.last_seen = resp'.in.created_at
          /\ after.last_reflection_score = score
          /\ IF ~before.present THEN after.rolling_reflection_score = score
             ELSE 10 * after.rolling_reflection_score
                    = 7 * before.rolling_reflection_score + 3 * score

\* C30: after n completed sessions of one user, one after the other, the
\* stored metrics have total_sessions = n, streak >= 1 and a rolling
\* reflection score in [0, 1]; the rolling score is the reflection score of
\* the first session and from then on 0.7 x the previous rolling score +
\* 0.3 x the reflection score of the session; each session writes the row
\* exactly once.
C30_MetricsInvariants == []MetricsAfterSessions /\ [][MetricsWrittenOnce]_vars

\* Three sessions on consecutive days under privacy mode with the logging
\* opt-out: the streak is 3 and the rolling score has moved away from the
\* score of the last session.
C30_Witness ==
  /\ nruns = 3 /\ resp.status = "ok"
  /\ cfg = [privacy |-> TRUE, optout |-> TRUE]
  /\ user_metrics["u1"].total_sessions = 3
  /\ user_metrics["u1"].streak = 3
  /\ user_metrics["u1"].rolling_reflection_score
       # user_metrics["u1"].last_reflection_score

====
